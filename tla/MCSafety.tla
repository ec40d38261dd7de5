------------------------------ MODULE MCSafety ------------------------------
(***************************************************************************)
(* Small instances, for one run of TLC, of the parts whose properties are  *)
(* all of safety: the policy registry, the members, the gateway keys and   *)
(* the connectors of the control API, the decision of the policy runtime   *)
(* and the tokens of the gateway, the desktop's audit log, the changes it  *)
(* writes to a file, and the execution of a workflow.  They share nothing. *)
(* A behaviour is about one of them, picked at the start, while the others *)
(* stay as they begin: TLC explores the sum of the parts, not their        *)
(* product.                                                                *)
(***************************************************************************)
EXTENDS MCPolicyRegistry, Membership, ApiKeys, Connectors, AuditSync, PolicyEvaluation,
        PayloadTokens, WorkflowRun, FastApply

CONSTANTS Parts,                       \* the parts that are looked at
          k1, k2, k3,                  \* gateway keys, audit events, nodes of a workflow
          u1, u2, o1,                  \* members
          email, card, upload, ann, bob \* decisions and tokens

VARIABLE part

CreatorOf == [c \in Codes |-> o1]

\* Rules of every effect, for one type or for all, at any time, in a window
\* that wraps around midnight or in one of a single day; and rules for one
\* action and actor, enabled or not.
Window(start, end, days) == [start |-> start, end |-> end, days |-> days]
SomeRules ==
  [enabled : {TRUE}, actions : {{}}, types : {{}, {email}}, actors : {{}},
   windows : {{}, {Window(2, 0, {})}, {Window(0, 1, {0})}},
   effect : {"ALLOW", "TOKENIZE", "REQUIRE_APPROVAL", "BLOCK"}]
  \cup [enabled : BOOLEAN, actions : {{upload}}, types : {{}}, actors : {{ann}},
        windows : {{}}, effect : {"BLOCK"}]

SomeContexts ==
  [action : {upload}, actor : {ann}, types : {{}, {email}, {email, card}}]
  \cup [action : {upload}, actor : {bob}, types : {{email, card}}]

\* Strings with tokens that the user typed and with a "$&"; reports that are
\* apart, that overlap, and an empty one.
Letter(x) == <<"letter", x>>
SomeTexts ==
  {<<Letter(1), Letter(2), Letter(3)>>, <<<<email, 0>>, Letter(2), Letter(3)>>,
   <<Letter(1), <<email, 1>>, <<"$&", 0>>>>, <<Letter(1), Letter(2), <<card, 0>>>>}
Report(type, start, end, confidence) ==
  [type |-> type, start |-> start, end |-> end, confidence |-> confidence]
SomeReports ==
  {Report(email, 0, 2, 3), Report(email, 2, 3, 2), Report(email, 1, 3, 1),
   Report(card, 0, 1, 4), Report(card, 1, 3, 5), Report(card, 2, 2, 6)}

\* Every graph of three nodes, with one edge or two wherever there are any.
Workflow == {k1, k2, k3}
SomeGraphs ==
  {{[id |-> <<p, i>>, from |-> p[1], to |-> p[2]] : p \in E, i \in 1 .. n} :
     E \in SUBSET (Workflow \X Workflow), n \in 1 .. 2}
-----------------------------------------------------------------------------
\* Some parts may begin in several states: in one of them only when another
\* part is looked at.
MembersAtRest ==
  /\ role = [o \in {o1} |-> [u \in {u1, u2} |-> "owner"]]
  /\ disabled = {} /\ code = [c \in Codes |-> "unissued"] /\ joined = [c \in Codes |-> {}]
  /\ memberPc = [r \in {t1, t2} |-> "idle"] /\ memberOp = [r \in {t1, t2} |-> NoRequest]
  /\ othersLeft = [r \in {t1, t2} |-> FALSE] /\ outdated = [r \in {t1, t2} |-> FALSE]

DecisionAtRest ==
  /\ snapshot = [i \in 1 .. 2 |-> CHOOSE rule \in SomeRules : TRUE] /\ scoped = TRUE
  /\ ctx = [action |-> upload, actor |-> ann, types |-> {}]
  /\ clock = [minute |-> 0, day |-> 0] /\ ticks = 0
  /\ next = 1 /\ matched = {} /\ held = {}
  /\ answer = [effect |-> "none", tokenize |-> {}]

PayloadAtRest ==
  /\ texts = [i \in 1 .. 2 |-> <<Letter(1), Letter(2), Letter(3)>>] /\ out = texts
  /\ reported = <<{}, {}>> /\ found = <<{}, {}>> /\ allowed = {} /\ at = 0 /\ left = {}
  /\ mapping = <<>> /\ indices = [type \in {email, card} |-> 0]
  /\ back = texts /\ due = [i \in 1 .. 2 |-> 0] /\ seen = due

FlowAtRest ==
  /\ edges = {} /\ degree = [n \in Workflow |-> 0]
  /\ queue = <<>> /\ order = <<>> /\ run = "sorting" /\ step = <<>> /\ node = NoNode
  /\ strategy = [kind |-> "abort", max |-> 0, other |-> NoNode] /\ attempt = 0
  /\ results = [n \in Workflow |-> "unset"] /\ outputs = {} /\ cancel = FALSE /\ broken = {}

PartsInit ==
  /\ part \in Parts
  /\ Init /\ KeysInit /\ LinksInit /\ AuditInit /\ FileInit
  /\ IF part = "members" THEN MembersInit ELSE MembersAtRest
  /\ IF part = "decision" THEN DecisionInit ELSE DecisionAtRest
  /\ IF part = "tokens" THEN PayloadInit ELSE PayloadAtRest
  /\ IF part = "workflow" THEN FlowInit ELSE FlowAtRest

Pick(p) == part = p /\ UNCHANGED part

\* The parts that come to an end have it as a stuttering step.
Ended == UNCHANGED <<decisionVars, tokenVars, flowVars>>

PartsNext ==
  \/ /\ Pick("policies") /\ Next
     /\ UNCHANGED <<memberVars, keyVars, linkVars, auditVars, decisionVars, tokenVars, flowVars,
                    fileVars>>
  \/ /\ Pick("members") /\ MembersNext
     /\ UNCHANGED <<vars, keyVars, linkVars, auditVars, decisionVars, tokenVars, flowVars,
                    fileVars>>
  \/ /\ Pick("keys") /\ KeysNext
     /\ UNCHANGED <<vars, memberVars, linkVars, auditVars, decisionVars, tokenVars, flowVars,
                    fileVars>>
  \/ /\ Pick("connectors") /\ LinksNext
     /\ UNCHANGED <<vars, memberVars, keyVars, auditVars, decisionVars, tokenVars, flowVars,
                    fileVars>>
  \/ /\ Pick("audit") /\ AuditNext
     /\ UNCHANGED <<vars, memberVars, keyVars, linkVars, decisionVars, tokenVars, flowVars,
                    fileVars>>
  \/ /\ Pick("decision") /\ (DecisionNext \/ (~Deciding /\ Ended))
     /\ UNCHANGED <<vars, memberVars, keyVars, linkVars, auditVars, tokenVars, flowVars,
                    fileVars>>
  \/ /\ Pick("tokens") /\ (PayloadNext \/ (AllReversed /\ Ended))
     /\ UNCHANGED <<vars, memberVars, keyVars, linkVars, auditVars, decisionVars, flowVars,
                    fileVars>>
  \/ /\ Pick("workflow") /\ (FlowNext \/ (FlowEnded /\ Ended))
     /\ UNCHANGED <<vars, memberVars, keyVars, linkVars, auditVars, decisionVars, tokenVars,
                    fileVars>>
  \/ /\ Pick("file") /\ (FileNext \/ (Reviewed /\ UNCHANGED fileVars))
     /\ UNCHANGED <<vars, memberVars, keyVars, linkVars, auditVars, decisionVars, tokenVars,
                    flowVars>>

PartsSpec ==
  PartsInit
  /\ [][PartsNext]_<<part, vars, memberVars, keyVars, linkVars, auditVars, decisionVars,
                     tokenVars, flowVars, fileVars>>

\* What is alike: connections and calls; keys, events and nodes.
PartsSymmetry == Symmetry \cup Permutations({k1, k2, k3})
-----------------------------------------------------------------------------
(* Properties: those of the parts.                                         *)

=============================================================================
