---------------------------- MODULE WorkflowRun ----------------------------
(***************************************************************************)
(* One execution of a workflow (packages/agent-canvas: graph/dag.rs,       *)
(* execution/scheduler.rs, execution/error_propagation.rs).                *)
(*                                                                         *)
(* The graph may have several edges between two nodes: an edge has an id,  *)
(* a node from which and a node to which it leads.  It is sorted by        *)
(* removing nodes without incoming edges; when some remain it has a cycle  *)
(* and is refused.  Then steps are run: the nodes all of whose parents     *)
(* belong to earlier steps, one after the other.  A node that fails is     *)
(* retried, skipped, replaced by the output of another node, or it fails   *)
(* the execution, which ends after its step.  The caller's flag cancels    *)
(* it between two steps.                                                   *)
(*                                                                         *)
(* A definition named "...Slip" is a mistake one could make in the         *)
(* definition below it; the specification uses none.                       *)
(***************************************************************************)
EXTENDS Integers, SequencesExt

CONSTANTS Nodes,
          Graphs,      \* the graphs to be run, each a set of edges
          MaxRetries,
          NoNode       \* no node is being run

ASSUME FlowAssumption ==
  /\ IsFiniteSet(Nodes) /\ NoNode \notin Nodes /\ MaxRetries \in Nat
  /\ \A graph \in Graphs :
       IsFiniteSet(graph) /\ \A e \in graph : e.from \in Nodes /\ e.to \in Nodes

Retry == {[kind |-> "retry", max |-> max, other |-> NoNode] : max \in 0 .. MaxRetries}
Strategies ==   \* ErrorStrategy; Abort is the default
  Retry \cup [kind : {"skip", "abort"}, max : {0}, other : {NoNode}]
        \cup [kind : {"fallback"}, max : {0}, other : Nodes]

VARIABLES edges,     \* the graph
          degree,    \* in_degree: incoming edges not yet removed
          queue,     \* nodes without any
          order,     \* the topological order
          run,       \* sorting, running, completed, failed, cancelled
          step,      \* the nodes of the current step still to be run
          node,      \* the node that is being run
          strategy, attempt,
          results,   \* Nodes -> unset, value or null (DataValue::None)
          outputs,   \* the nodes whose output is in the DataFlow
          cancel,    \* the caller's flag
          broken     \* history: nodes that failed the execution

flowVars == <<edges, degree, queue, order, run, step, node, strategy, attempt,
          results, outputs, cancel, broken>>

Parents(n) == {e.from : e \in {d \in edges : d.to = n}}
InDegree(n) == Cardinality({e \in edges : e.to = n})
Visited == {n \in Nodes : results[n] # "unset"}
Orders(S) == SetToSeqs(S)
-----------------------------------------------------------------------------
FlowTypeOK ==
  /\ edges \in Graphs /\ degree \in [Nodes -> Nat]
  /\ queue \in Seq(Nodes) /\ order \in Seq(Nodes)
  /\ run \in {"sorting", "running", "completed", "failed", "cancelled"}
  /\ step \in Seq(Nodes) /\ node \in Nodes \cup {NoNode}
  /\ strategy \in Strategies /\ attempt \in 0 .. MaxRetries
  /\ results \in [Nodes -> {"unset", "value", "null"}]
  /\ outputs \subseteq Nodes /\ cancel \in BOOLEAN /\ broken \subseteq Nodes

(* execute() with a workflow, up to the loop of topological_sort(): the    *)
(* HashMap yields its nodes in any order.                                  *)
FlowInit ==
  /\ edges \in Graphs
  /\ degree = [n \in Nodes |-> InDegree(n)]
  /\ queue \in Orders({n \in Nodes : degree[n] = 0})
  /\ order = <<>> /\ run = "sorting"
  /\ step = <<>> /\ node = NoNode
  /\ strategy = [kind |-> "abort", max |-> 0, other |-> NoNode] /\ attempt = 0
  /\ results = [n \in Nodes |-> "unset"] /\ outputs = {}
  /\ cancel = FALSE /\ broken = {}

Between(n, c) == {e \in edges : e.from = n /\ e.to = c}
RemovedSlip(n) == [c \in Nodes |-> IF Between(n, c) # {} THEN degree[c] - 1 ELSE degree[c]]
Removed(n) == [c \in Nodes |-> degree[c] - Cardinality(Between(n, c))]

(* One round of the loop: the edges of a node are removed, in the order in *)
(* which they were added to the graph.                                     *)
Sort ==
  /\ run = "sorting" /\ queue # <<>>
  /\ LET n == Head(queue) IN
     /\ degree' = Removed(n)
     /\ order' = Append(order, n)
     /\ \E freed \in Orders({c \in Nodes : degree[c] > 0 /\ degree'[c] = 0}) :
          queue' = Tail(queue) \o freed
  /\ UNCHANGED <<edges, run, step, node, strategy, attempt, results, outputs, cancel, broken>>

(* CycleDetected, or build_steps().                                        *)
Schedule ==
  /\ run = "sorting" /\ queue = <<>>
  /\ run' = IF Len(order) # Cardinality(Nodes) THEN "failed" ELSE "running"
  /\ UNCHANGED <<edges, degree, queue, order, step, node, strategy, attempt, results, outputs,
                 cancel, broken>>

Ready(n) == n \notin Visited /\ Parents(n) \subseteq Visited

BetweenSteps == run = "running" /\ step = <<>> /\ node = NoNode

(* The caller sets the flag, whenever it likes.                            *)
SetCancel ==
  /\ run \in {"sorting", "running"} /\ ~cancel
  /\ cancel' = TRUE
  /\ UNCHANGED <<edges, degree, queue, order, run, step, node, strategy, attempt, results,
                 outputs, broken>>

MayGoOnSlip == TRUE
MayGoOn == broken = {}

\* The nodes of S, as a sequence, in the order in which `order` has them.
InOrder(S) ==
  {s \in Orders(S) : \A i, j \in DOMAIN s, k, l \in DOMAIN order :
                       s[i] = order[k] /\ s[j] = order[l] /\ i < j => k < l}

(* The loop over the steps: which nodes are next depends on the graph      *)
(* alone.  It ends when the flag is set, after a failure or with the last. *)
NextStep ==
  /\ BetweenSteps /\ Visited # Nodes /\ MayGoOn /\ ~cancel
  /\ step' \in InOrder({n \in Nodes : Ready(n)})
  /\ UNCHANGED <<edges, degree, queue, order, run, node, strategy, attempt, results, outputs,
                 cancel, broken>>

EndRun ==
  /\ BetweenSteps
  /\ \/ ~MayGoOn /\ run' = "failed"
     \/ MayGoOn /\ Visited = Nodes /\ run' = "completed"
     \/ MayGoOn /\ Visited # Nodes /\ cancel /\ run' = "cancelled"
  /\ UNCHANGED <<edges, degree, queue, order, step, node, strategy, attempt, results, outputs,
                 cancel, broken>>

(* The next node of the step, with the strategy it has.                    *)
Enter ==
  /\ node = NoNode /\ step # <<>>
  /\ node' = Head(step) /\ step' = Tail(step)
  /\ strategy' \in Strategies /\ attempt' = 0
  /\ UNCHANGED <<edges, degree, queue, order, run, results, outputs, cancel, broken>>

Leave(result) ==
  /\ results' = [results EXCEPT ![node] = result]
  /\ node' = NoNode
  /\ UNCHANGED <<edges, degree, queue, order, run, step, strategy, attempt, cancel>>

(* The executor returns a value.                                           *)
NodeSucceeds ==
  /\ node # NoNode
  /\ Leave("value")
  /\ outputs' = outputs \cup {node}
  /\ UNCHANGED broken

(* It returns an error, or the type of the node has none: handle().        *)
TryAgain ==
  /\ node # NoNode /\ strategy.kind = "retry" /\ attempt < strategy.max
  /\ attempt' = attempt + 1
  /\ UNCHANGED <<edges, degree, queue, order, run, step, node, strategy, results, outputs,
                 cancel, broken>>

Substitute ==
  /\ node # NoNode /\ strategy.kind \in {"skip", "fallback"}
  /\ Leave(IF strategy.other \in outputs THEN "value" ELSE "null")
  /\ UNCHANGED <<outputs, broken>>

Break ==
  /\ node # NoNode
  /\ strategy.kind = "abort" \/ (strategy.kind = "retry" /\ attempt >= strategy.max)
  /\ Leave("null")
  /\ broken' = broken \cup {node}
  /\ UNCHANGED outputs

FlowNext ==
  \/ Sort \/ Schedule \/ SetCancel \/ NextStep \/ EndRun
  \/ Enter \/ NodeSucceeds \/ TryAgain \/ Substitute \/ Break

FlowSpec == FlowInit /\ [][FlowNext]_flowVars

FlowEnded == run \in {"completed", "failed", "cancelled"}
-----------------------------------------------------------------------------
(* Properties.                                                             *)

\* Some nodes have each a parent among them.
Cyclic == \E C \in SUBSET Nodes : C # {} /\ \A n \in C : Parents(n) \cap C # {}

(* A graph is refused, before anything is run, if it has a cycle and only  *)
(* then, however many edges join two nodes.  (topological_sort)            *)
RefusedIffCyclic ==
  run # "sorting" => (Cyclic <=> (run = "failed" /\ Visited = {}))

(* What runs has had all that it depends on, directly or not, before it;   *)
(* nothing that depends on a node that failed the execution is run; and a  *)
(* completed execution has a result for every node, a failed or cancelled  *)
(* one has had its reason.  (build_steps, execute)                         *)
DependentsComeAfter ==
  /\ \A n \in Visited \cup ({node} \ {NoNode}) : Parents(n) \subseteq Visited \ broken
  /\ run = "completed" => Visited = Nodes /\ broken = {}
  /\ run = "cancelled" => cancel /\ Visited # Nodes
  /\ run = "failed" => Cyclic \/ broken # {}
-----------------------------------------------------------------------------
(* Why they hold.                                                          *)

\* What is left of a degree are the edges from nodes that are not sorted yet.
DegreesAreLeft ==
  \A c \in Nodes :
    degree[c] = Cardinality({e \in edges : e.to = c /\ e.from \notin Range(order)})

\* The nodes without any are sorted or wait for it, each once.
FreeAreSorted ==
  /\ Cardinality(Range(order)) = Len(order)
  /\ IsInjective(queue) /\ Range(queue) \cap Range(order) = {}
  /\ Range(queue) \cup Range(order) = {c \in Nodes : degree[c] = 0}

\* Nodes that have each a parent among them are never sorted.
SortedAreAcyclic ==
  \A C \in SUBSET Range(order) : C # {} => \E n \in C : Parents(n) \cap C = {}

\* Nothing runs before the sort is over or after the run is.
RunsInBetween ==
  /\ run # "running" => step = <<>> /\ node = NoNode
  /\ run = "sorting" => Visited = {}

\* A node of a step has not been run, and nodes that have been run or are
\* about to be need nothing that failed or is still to come.
StepsAreReady ==
  /\ IsInjective(step) /\ Range(step) \cap (Visited \cup {node}) = {}
  /\ node \notin Visited /\ broken \subseteq Visited
  /\ \A n \in Visited \cup Range(step) \cup ({node} \ {NoNode}) :
       Parents(n) \subseteq Visited \ broken

\* The sort finds out whether there is a cycle, and how a run ended says why.
EndsWithReason ==
  /\ run \in {"running", "completed", "cancelled"} => ~Cyclic
  /\ run = "completed" => Visited = Nodes /\ broken = {}
  /\ run = "cancelled" => cancel /\ Visited # Nodes
  /\ run = "failed" => IF Cyclic THEN Visited = {} ELSE broken # {}

(* The inductive invariant.                                                *)
FlowIndInv ==
  /\ FlowTypeOK /\ DegreesAreLeft /\ FreeAreSorted /\ SortedAreAcyclic
  /\ RunsInBetween /\ StepsAreReady /\ EndsWithReason
=============================================================================
