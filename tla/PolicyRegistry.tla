--------------------------- MODULE PolicyRegistry ---------------------------
(***************************************************************************)
(* The policies of one organization in the control plane: the rows of      *)
(* policy_sets, policy_versions and policy_bindings, and the transactions  *)
(* of createPolicySet, createPolicyVersion, publishPolicyVersion,          *)
(* bindModulePolicy and upsertModulePolicy, one step per statement.        *)
(*                                                                         *)
(* The transactions are READ COMMITTED: a statement sees what is committed *)
(* when it starts and what its own transaction wrote.  What keeps two of   *)
(* them apart is the lock on the row of the policy set, taken first        *)
(* (SELECT ... FOR UPDATE in requirePolicy, the INSERT of the row, or its  *)
(* ON CONFLICT DO UPDATE).  The rules of a version never change and decide *)
(* nothing here: a version is its number and its status.                   *)
(***************************************************************************)
EXTENDS Integers, FiniteSetsExt

CONSTANTS Txns,        \* the connections of the pool
          Sets,        \* the policy sets there may be: the (name, module) pairs
          Modules,     \* the modules a policy is for
          ModuleOf,    \* Sets -> the module of the set
          MaxVersion,  \* bound: the highest version number of a set
          Nobody,      \* no transaction holds the lock
          Unbound,     \* the module has no row in policy_bindings
          Untouched,   \* the transaction has not written the version
          NoOp         \* the connection runs no transaction

ASSUME ModuleOfAssumption == ModuleOf \in [Sets -> Modules]
ASSUME MaxVersionAssumption == MaxVersion \in Nat \ {0}
ASSUME NobodyAssumption == Nobody \notin Txns
ASSUME UnboundAssumption == Unbound \notin Sets

Versions == 1 .. MaxVersion
Statuses == {"none", "draft", "published"}   \* none: there is no such row

ASSUME UntouchedAssumption == Untouched \notin Statuses

Op == [kind : {"createSet", "createVersion", "upsert"}, set : Sets]
      \cup [kind : {"publish"}, set : Sets, version : Versions]
      \cup [kind : {"bind"}, set : Sets, module : Modules]

ASSUME NoOpAssumption == NoOp \notin Op

\* The rows recordAudit adds: what was done, and to which version (0: none).
Event == [type : {"created", "version_created", "published", "bound", "upserted"},
          set : Sets, version : Versions \cup {0}]

VARIABLES created,   \* the sets whose row is committed
          status,    \* Sets -> Versions -> the committed status
          binding,   \* Modules -> the committed policy_set_id, or Unbound
          trail,     \* the committed audit events
          setLock,   \* Sets -> who holds the row, or inserts it
          bindLock,  \* Modules -> who has written the row of policy_bindings
          pc,        \* Txns -> how far the transaction is
          op,        \* Txns -> what it was asked to do, or NoOp
          wrote,     \* Txns -> its uncommitted writes to the versions of its set
          added      \* Txns -> the version it has inserted, or 0

vars == <<created, status, binding, trail, setLock, bindLock, pc, op, wrote, added>>
committed == <<created, status, binding, trail>>

NoWrites == [v \in Versions |-> Untouched]
InFlight == {"begun", "locked", "targeted", "demoted", "approved", "done"}

TypeOK ==
  /\ created \subseteq Sets
  /\ status \in [Sets -> [Versions -> Statuses]]
  /\ binding \in [Modules -> Sets \cup {Unbound}]
  /\ trail \subseteq Event
  /\ setLock \in [Sets -> Txns \cup {Nobody}]
  /\ bindLock \in [Modules -> Txns \cup {Nobody}]
  /\ pc \in [Txns -> InFlight \cup {"idle"}]
  /\ op \in [Txns -> Op \cup {NoOp}]
  /\ wrote \in [Txns -> [Versions -> Statuses \cup {Untouched}]]
  /\ added \in [Txns -> Versions \cup {0}]

Init ==
  /\ created = {}
  /\ status = [s \in Sets |-> [v \in Versions |-> "none"]]
  /\ binding = [m \in Modules |-> Unbound]
  /\ trail = {}
  /\ setLock = [s \in Sets |-> Nobody]
  /\ bindLock = [m \in Modules |-> Nobody]
  /\ pc = [t \in Txns |-> "idle"]
  /\ op = [t \in Txns |-> NoOp]
  /\ wrote = [t \in Txns |-> NoWrites]
  /\ added = [t \in Txns |-> 0]

-----------------------------------------------------------------------------
(* What the statements see and compute.  A definition named "...Slip" is a   *)
(* mistake one could make in the definition below it; the specification      *)
(* uses none.                                                                *)

\* The versions of its set as a statement of t sees them.
View(t) == [v \in Versions |->
  IF wrote[t][v] = Untouched THEN status[op[t].set][v] ELSE wrote[t][v]]

Existing(t) == {v \in Versions : View(t)[v] # "none"}

\* COALESCE(MAX(version), 0) + 1
NextVersion(t) == IF Existing(t) = {} THEN 1 ELSE Max(Existing(t)) + 1

\* The version that publishing is about.
Target(t) == IF op[t].kind = "publish" THEN op[t].version ELSE added[t]

\* UPDATE ... SET status = 'draft' WHERE status = 'published' AND id <> target
Demoted(t) == [v \in Versions |->
  IF View(t)[v] = "published" /\ v # Target(t) THEN "draft" ELSE wrote[t][v]]

\* A SELECT without FOR UPDATE.
SetIsFreeSlip(s) == TRUE

\* The row of the set is nobody's: a statement that locks it need not wait.
SetIsFree(s) == setLock[s] = Nobody

\* Any policy set will do.
MayBindSlip(t) == ModuleOf[op[t].set] = op[t].module

\* The two checks of bindModulePolicy.
MayBind(t) ==
  /\ ModuleOf[op[t].set] = op[t].module
  /\ \E v \in Versions : View(t)[v] = "published"

\* The operations that write the row of policy_bindings.
Binds(t) == op[t].kind \in {"bind", "upsert"}

\* The arguments of recordAudit.
EventOf(t) ==
  [type |-> CASE op[t].kind = "createSet" -> "created"
              [] op[t].kind = "createVersion" -> "version_created"
              [] op[t].kind = "publish" -> "published"
              [] op[t].kind = "bind" -> "bound"
              [] op[t].kind = "upsert" -> "upserted",
   set |-> op[t].set,
   version |-> IF op[t].kind \in {"createSet", "bind"} THEN 0 ELSE Target(t)]

\* A connection that goes back to the pool with its transaction open.
EndsSlip(t) ==
  /\ pc' = [pc EXCEPT ![t] = "idle"]
  /\ op' = [op EXCEPT ![t] = NoOp]
  /\ wrote' = [wrote EXCEPT ![t] = NoWrites]
  /\ added' = [added EXCEPT ![t] = 0]
  /\ UNCHANGED <<setLock, bindLock>>

\* COMMIT or ROLLBACK: the locks and the uncommitted writes are gone.
Ends(t) ==
  /\ pc' = [pc EXCEPT ![t] = "idle"]
  /\ op' = [op EXCEPT ![t] = NoOp]
  /\ wrote' = [wrote EXCEPT ![t] = NoWrites]
  /\ added' = [added EXCEPT ![t] = 0]
  /\ setLock' = [s \in Sets |-> IF setLock[s] = t THEN Nobody ELSE setLock[s]]
  /\ bindLock' = [m \in Modules |-> IF bindLock[m] = t THEN Nobody ELSE bindLock[m]]

-----------------------------------------------------------------------------
(* The statements.                                                         *)

Begin(t, o) ==
  /\ pc[t] = "idle"
  /\ pc' = [pc EXCEPT ![t] = "begun"]
  /\ op' = [op EXCEPT ![t] = o]
  /\ UNCHANGED <<committed, setLock, bindLock, wrote, added>>

\* requirePolicy, or the INSERT INTO policy_sets of createPolicySet and of
\* upsertModulePolicy: the row is there, or new, and is now t's.
LockSet(t) ==
  LET s == op[t].set IN
  /\ pc[t] = "begun"
  /\ \/ op[t].kind \in {"createVersion", "publish", "bind"} /\ s \in created
     \/ op[t].kind = "createSet" /\ s \notin created
     \/ op[t].kind = "upsert"
  /\ SetIsFree(s)
  /\ setLock' = [setLock EXCEPT ![s] = t]
  /\ pc' = [pc EXCEPT ![t] = IF op[t].kind = "createSet" THEN "done" ELSE "locked"]
  /\ UNCHANGED <<committed, bindLock, op, wrote, added>>

\* INSERT INTO policy_versions ... SELECT MAX(version) + 1
InsertVersion(t) ==
  /\ pc[t] = "locked"
  /\ op[t].kind \in {"createVersion", "upsert"}
  /\ NextVersion(t) <= MaxVersion
  /\ wrote' = [wrote EXCEPT ![t] = [@ EXCEPT ![NextVersion(t)] = "draft"]]
  /\ added' = [added EXCEPT ![t] = NextVersion(t)]
  /\ pc' = [pc EXCEPT ![t] = IF op[t].kind = "upsert" THEN "targeted" ELSE "done"]
  /\ UNCHANGED <<committed, setLock, bindLock, op>>

\* publishPolicyVersion: SELECT ... FOR UPDATE finds the version.  Nobody else
\* has it locked, since it is only ever written under the lock of its set.
SelectTarget(t) ==
  /\ pc[t] = "locked"
  /\ op[t].kind = "publish"
  /\ op[t].version \in Existing(t)
  /\ pc' = [pc EXCEPT ![t] = "targeted"]
  /\ UNCHANGED <<committed, setLock, bindLock, op, wrote, added>>

DemoteOthers(t) ==
  /\ pc[t] = "targeted"
  /\ wrote' = [wrote EXCEPT ![t] = Demoted(t)]
  /\ pc' = [pc EXCEPT ![t] = "demoted"]
  /\ UNCHANGED <<committed, setLock, bindLock, op, added>>

PromoteTarget(t) ==
  /\ pc[t] = "demoted"
  /\ wrote' = [wrote EXCEPT ![t] = [@ EXCEPT ![Target(t)] = "published"]]
  /\ pc' = [pc EXCEPT ![t] = IF op[t].kind = "upsert" THEN "approved" ELSE "done"]
  /\ UNCHANGED <<committed, setLock, bindLock, op, added>>

\* bindModulePolicy: the module of the set is the one asked for, and a
\* published version is found.
ApproveBinding(t) ==
  /\ pc[t] = "locked"
  /\ op[t].kind = "bind"
  /\ MayBind(t)
  /\ pc' = [pc EXCEPT ![t] = "approved"]
  /\ UNCHANGED <<committed, setLock, bindLock, op, wrote, added>>

\* INSERT INTO policy_bindings ... ON CONFLICT DO UPDATE waits for another
\* transaction that has written the row of the module.
UpsertBinding(t) ==
  LET m == ModuleOf[op[t].set] IN
  /\ pc[t] = "approved"
  /\ bindLock[m] = Nobody
  /\ bindLock' = [bindLock EXCEPT ![m] = t]
  /\ pc' = [pc EXCEPT ![t] = "done"]
  /\ UNCHANGED <<committed, setLock, op, wrote, added>>

\* recordAudit and COMMIT: all of it becomes visible at once.
Commit(t) ==
  LET s == op[t].set IN
  /\ pc[t] = "done"
  /\ created' = created \cup {s}
  /\ status' = [status EXCEPT ![s] = View(t)]
  /\ binding' = IF Binds(t) THEN [binding EXCEPT ![ModuleOf[s]] = s] ELSE binding
  /\ trail' = trail \cup {EventOf(t)}
  /\ Ends(t)

\* A row that is required is not there, or is there already: the method
\* throws, and its transaction is rolled back.  (A set is also refused a
\* version beyond the bound of this model.)
Refuse(t) ==
  LET s == op[t].set IN
  /\ \/ /\ pc[t] = "begun"
        /\ \/ op[t].kind \in {"createVersion", "publish", "bind"} /\ s \notin created
           \/ op[t].kind = "createSet" /\ s \in created
     \/ /\ pc[t] = "locked"
        /\ \/ op[t].kind = "publish" /\ op[t].version \notin Existing(t)
           \/ op[t].kind = "bind" /\ ~MayBind(t)
           \/ op[t].kind \in {"createVersion", "upsert"} /\ NextVersion(t) > MaxVersion
  /\ UNCHANGED committed
  /\ Ends(t)

\* A statement fails, the process dies or the connection is lost.
Fail(t) ==
  /\ pc[t] \in InFlight
  /\ UNCHANGED committed
  /\ Ends(t)

-----------------------------------------------------------------------------
Proceed(t) ==
  \/ LockSet(t) \/ InsertVersion(t) \/ SelectTarget(t) \/ DemoteOthers(t)
  \/ PromoteTarget(t) \/ ApproveBinding(t) \/ UpsertBinding(t)
  \/ Commit(t) \/ Refuse(t)

Next == \E t \in Txns :
  \/ \E o \in Op : Begin(t, o)
  \/ Proceed(t)
  \/ Fail(t)

Spec == Init /\ [][Next]_vars

\* PostgreSQL runs the statements of an open transaction and queues those that
\* wait for a row: none is passed over for ever.  Failing is never owed.
FairSpec == Spec /\ \A t \in Txns : SF_vars(Proceed(t))

-----------------------------------------------------------------------------
(* What is promised.                                                       *)

PublishedIn(view) == {v \in Versions : view[v] = "published"}
AtMostOne(S) == \A v, w \in S : v = w

\* UNIQUE (policy_set_id, version) is never what stops a transaction: the
\* number createPolicyVersion and upsertModulePolicy compute from MAX(version)
\* is taken neither by a committed version nor by another open transaction.
VersionNumbersAreFresh ==
  \A t \in Txns : added[t] # 0 =>
    /\ status[op[t].set][added[t]] = "none"
    /\ \A u \in Txns \ {t} : op[u] # NoOp /\ op[u].set = op[t].set => added[u] # added[t]

\* Nor is policy_versions_one_published_idx: publishing demotes before it
\* promotes, and no other version can have been published in between, so no
\* statement ever sees two published versions of a set.
OnePublished ==
  /\ \A s \in Sets : AtMostOne(PublishedIn(status[s]))
  /\ \A t \in Txns : op[t] # NoOp => AtMostOne(PublishedIn(View(t)))

\* getBoundPublishedSnapshot finds exactly one snapshot of every module that
\* was ever bound, whatever is being published or bound meanwhile: its joins
\* on the module, the set and the published version never come out empty.
BoundIsServed ==
  \A m \in Modules : binding[m] # Unbound =>
    /\ ModuleOf[binding[m]] = m
    /\ binding[m] \in created
    /\ \E v \in Versions : PublishedIn(status[binding[m]]) = {v}

Audited(type, s, v) == [type |-> type, set |-> s, version |-> v] \in trail

\* The audit trail accounts for the registry: a version was created by an
\* audited event, a published one was published by one, and a binding was made
\* by one that names the bound set.
TrailAccounts ==
  /\ \A s \in Sets, v \in Versions :
       /\ status[s][v] # "none" => Audited("version_created", s, v) \/ Audited("upserted", s, v)
       /\ status[s][v] = "published" => Audited("published", s, v) \/ Audited("upserted", s, v)
  /\ \A m \in Modules : binding[m] # Unbound =>
       \/ Audited("bound", binding[m], 0)
       \/ \E v \in Versions : Audited("upserted", binding[m], v)

\* What the next statement of t waits for: u holds the row of its set, or has
\* written the binding of its module, and has not ended.
WaitsFor(t, u) ==
  \/ pc[t] = "begun" /\ setLock[op[t].set] = u
  \/ pc[t] = "approved" /\ bindLock[ModuleOf[op[t].set]] = u

\* Nor do they wait in a circle, though each takes the row of its set and then
\* the binding of its module: among any transactions there is one that waits
\* for none of them, whichever sets and modules they are about.
NoCircularWait ==
  \A T \in SUBSET Txns : T # {} => \E t \in T : \A u \in T : ~WaitsFor(t, u)

\* However long they wait for each other, all of them come to an end.
EveryTransactionEnds == \A t \in Txns : []<>(pc[t] = "idle")

\* What the callers are promised: PolicyBook, where each request happens at
\* one instant.
Book == INSTANCE PolicyBook WITH
  created <- created, status <- status, binding <- binding, trail <- trail
ImplementsPolicyBook == Book!Spec

-----------------------------------------------------------------------------
(* The inductive invariant.                                                *)

\* The row lock: who holds the row of a set runs on that set, and from its
\* first statement on a transaction holds the row of its set.
LockHeld ==
  /\ \A t \in Txns : pc[t] \in InFlight \ {"begun"} => setLock[op[t].set] = t
  /\ \A s \in Sets, t \in Txns :
       setLock[s] = t => pc[t] \in InFlight \ {"begun"} /\ op[t].set = s

\* Which operation is in which phase, on a set that is there or not.
Phases == \A t \in Txns :
  /\ pc[t] = "idle" <=> op[t] = NoOp
  /\ pc[t] = "locked" => op[t].kind # "createSet"
  /\ pc[t] \in {"targeted", "demoted"} => op[t].kind \in {"publish", "upsert"}
  /\ pc[t] = "approved" => Binds(t)
  /\ pc[t] \in InFlight \ {"begun"} =>
       /\ op[t].kind \in {"createVersion", "publish", "bind"} => op[t].set \in created
       /\ op[t].kind = "createSet" => op[t].set \notin created
  /\ pc[t] \in {"approved", "done"} /\ op[t].kind = "bind" =>
       /\ ModuleOf[op[t].set] = op[t].module
       /\ PublishedIn(status[op[t].set]) # {}

Wrote(t) == \/ pc[t] = "done" /\ op[t].kind = "createVersion"
            \/ pc[t] \in {"targeted", "demoted", "done"} /\ op[t].kind = "publish"
            \/ pc[t] \in {"targeted", "demoted", "approved", "done"} /\ op[t].kind = "upsert"

\* What a transaction sees of its set, in terms of the committed versions,
\* which do not change while it holds the row.
ViewOf(t) == LET s == op[t].set IN
  /\ wrote[t] = NoWrites \/ Wrote(t)
  /\ added[t] # 0 <=> Wrote(t) /\ op[t].kind # "publish"
  /\ added[t] # 0 => Book!IsNext(s, added[t])
  /\ Wrote(t) /\ op[t].kind = "publish" => status[s][op[t].version] # "none"
  /\ pc[t] = "targeted" /\ op[t].kind = "publish" => wrote[t] = NoWrites
  /\ \/ pc[t] = "targeted" /\ op[t].kind = "upsert"
     \/ pc[t] = "done" /\ op[t].kind = "createVersion"
     => \A v \in Versions : View(t)[v] = IF v = added[t] THEN "draft" ELSE status[s][v]
  /\ pc[t] = "demoted" =>
       \A v \in Versions \ {Target(t)} : View(t)[v] = Book!Published(s, Target(t))[v]
  /\ Wrote(t) /\ pc[t] \in {"approved", "done"} /\ op[t].kind # "createVersion" =>
       \A v \in Versions : View(t)[v] = Book!Published(s, Target(t))[v]

Views == \A t \in Txns : ViewOf(t)

\* The committed versions of a set are numbered 1 .. n, and belong to a row.
Dense == \A s \in Sets :
  \E n \in 0 .. MaxVersion :
    /\ \A v \in Versions : status[s][v] # "none" <=> v <= n
    /\ n > 0 => s \in created

CommittedPublished ==
  /\ \A s \in Sets : AtMostOne(PublishedIn(status[s]))
  /\ BoundIsServed

\* The last lock: who has written a binding only has to COMMIT.
BindLockIsLast == \A m \in Modules, t \in Txns : bindLock[m] = t => pc[t] = "done"

IndInv ==
  TypeOK /\ LockHeld /\ Phases /\ Views /\ Dense /\ CommittedPublished /\ TrailAccounts
=============================================================================
