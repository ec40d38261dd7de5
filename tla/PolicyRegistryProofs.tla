------------------------ MODULE PolicyRegistryProofs ------------------------
(***************************************************************************)
(* Theorems about PolicyRegistry for every number of connections, policy   *)
(* sets, modules and versions.                                             *)
(***************************************************************************)
EXTENDS PolicyRegistry, TLAPS

USE ModuleOfAssumption, MaxVersionAssumption, NobodyAssumption,
    UnboundAssumption, UntouchedAssumption, NoOpAssumption

\* MAX(version) + 1 of versions numbered without a gap is the next number.
LEMMA NextIsFree ==
  ASSUME IndInv, NEW t \in Txns, pc[t] = "locked", NextVersion(t) <= MaxVersion
  PROVE  /\ NextVersion(t) \in Versions
         /\ Book!IsNext(op[t].set, NextVersion(t))
<1> DEFINE s == op[t].set
<1>1. op[t] \in Op /\ s \in Sets
  BY DEF IndInv, TypeOK, Phases, Op
<1>2. wrote[t] = NoWrites
  BY DEF IndInv, Views, ViewOf, Wrote
<1>3. View(t) = status[s]
  BY <1>1, <1>2 DEF IndInv, TypeOK, View, NoWrites
<1>4. PICK n \in 0 .. MaxVersion : \A v \in Versions : status[s][v] # "none" <=> v <= n
  BY <1>1 DEF IndInv, Dense
<1>5. Existing(t) = 1 .. n
  BY <1>3, <1>4 DEF Existing, Versions
<1>6. NextVersion(t) = n + 1
  <2>1. CASE n = 0
    BY <2>1, <1>5 DEF NextVersion
  <2>2. CASE n > 0
    <3>1. Max(1 .. n) = n
      BY <2>2, <1>4 DEF Max
    <3>2. 1 .. n # {}
      BY <2>2, <1>4
    <3>3. QED
      BY <1>5, <3>1, <3>2 DEF NextVersion
  <2>3. QED
    BY <2>1, <2>2, <1>4
<1>7. QED
  BY <1>4, <1>6 DEF Versions, Book!IsNext, Book!Versions

LEMMA InitInv == Init => IndInv
<1> SUFFICES ASSUME Init PROVE IndInv
  OBVIOUS
<1>1. TypeOK
  BY DEF Init, TypeOK, NoWrites, Statuses, Event
<1>2. LockHeld /\ Phases
  BY DEF Init, LockHeld, Phases, InFlight
<1>3. Views
  BY DEF Init, Views, ViewOf, Wrote
<1>4. Dense
  <2>1. 0 \in 0 .. MaxVersion
    OBVIOUS
  <2>2. ASSUME NEW s \in Sets
        PROVE  (\A v \in Versions : status[s][v] # "none" <=> v <= 0) /\ (0 > 0 => s \in created)
    BY DEF Init, Versions
  <2>3. QED
    BY <2>1, <2>2 DEF Dense
<1>5. CommittedPublished /\ TrailAccounts
  BY DEF Init, CommittedPublished, BoundIsServed, TrailAccounts, PublishedIn, AtMostOne
<1>6. QED
  BY <1>1, <1>2, <1>3, <1>4, <1>5 DEF IndInv

\* What a transaction sees of its set does not change by the steps of others.
LEMMA ViewIsKept ==
  ASSUME NEW u \in Txns, ViewOf(u),
         pc'[u] = pc[u], op'[u] = op[u], wrote'[u] = wrote[u], added'[u] = added[u],
         pc[u] \in {"idle", "begun"} \/ status'[op[u].set] = status[op[u].set]
  PROVE  ViewOf(u)'
<1>1. Wrote(u)' = Wrote(u) /\ Target(u)' = Target(u)
  BY DEF Wrote, Target
<1>2. CASE pc[u] \in {"idle", "begun"}
  BY <1>1, <1>2 DEF ViewOf, Wrote
<1>3. CASE status'[op[u].set] = status[op[u].set]
  <2>1. View(u)' = View(u)
    BY <1>3 DEF View
  <2>2. /\ \A v : Book!IsNext(op[u].set, v) => Book!IsNext(op[u].set, v)'
        /\ \A v : Book!Published(op[u].set, v)' = Book!Published(op[u].set, v)
    BY <1>3 DEF Book!IsNext, Book!Published
  <2>3. QED
    BY <1>1, <1>3, <2>1, <2>2 DEF ViewOf
<1>4. QED
  BY <1>2, <1>3

\* Nothing changes in the committed rows before a COMMIT.
LEMMA BookIsKept ==
  ASSUME Dense, CommittedPublished, TrailAccounts, UNCHANGED committed
  PROVE  Dense' /\ CommittedPublished' /\ TrailAccounts'
<1>1. status' = status /\ created' = created /\ binding' = binding /\ trail' = trail
  BY DEF committed
<1>2. Dense'
  BY <1>1 DEF Dense
<1>3. CommittedPublished'
  BY <1>1 DEF CommittedPublished, BoundIsServed
<1>4. TrailAccounts'
  BY <1>1 DEF TrailAccounts, Audited
<1>5. QED
  BY <1>2, <1>3, <1>4

\* What a transaction in flight was asked to do.
LEMMA OpFields ==
  ASSUME TypeOK, Phases, NEW t \in Txns, pc[t] # "idle"
  PROVE  /\ op[t] \in Op
         /\ op[t].set \in Sets
         /\ ModuleOf[op[t].set] \in Modules
         /\ op[t].kind = "publish" => op[t].version \in Versions
<1>1. op[t] \in Op
  BY DEF TypeOK, Phases
<1>2. QED
  BY <1>1 DEF Op

LEMMA BeginInv ==
  ASSUME IndInv, NEW t \in Txns, NEW o \in Op, Begin(t, o)
  PROVE  IndInv'
<1>0. pc[t] # "idle" => op[t] \in Op /\ op[t].set \in Sets /\ ModuleOf[op[t].set] \in Modules
  BY OpFields DEF IndInv
<1>1. TypeOK'
  BY <1>0 DEF IndInv, TypeOK, InFlight, Begin, committed
<1>2. LockHeld'
  BY <1>0 DEF IndInv, TypeOK, LockHeld, InFlight, Begin, committed
<1>3. Phases'
  BY <1>0 DEF IndInv, TypeOK, Phases, InFlight, Binds, Begin, committed
<1>4. Views'
  <2>1. ASSUME NEW u \in Txns \ {t} PROVE ViewOf(u)'
    BY ViewIsKept DEF IndInv, TypeOK, Views, Begin, committed
  <2>2. ViewOf(t)'
    BY <1>0 DEF IndInv, TypeOK, Phases, Views, ViewOf, Wrote, Begin, committed
  <2>3. QED
    BY <2>1, <2>2 DEF Views
<1>5. Dense' /\ CommittedPublished' /\ TrailAccounts'
  BY BookIsKept DEF IndInv, Begin
<1>6. QED
  BY <1>1, <1>2, <1>3, <1>4, <1>5 DEF IndInv

LEMMA LockSetInv ==
  ASSUME IndInv, NEW t \in Txns, LockSet(t)
  PROVE  IndInv'
<1>0. pc[t] # "idle" => op[t] \in Op /\ op[t].set \in Sets /\ ModuleOf[op[t].set] \in Modules
  BY OpFields DEF IndInv
<1>1. TypeOK'
  BY <1>0 DEF IndInv, TypeOK, InFlight, LockSet, SetIsFree, committed
<1>2. LockHeld'
  BY <1>0 DEF IndInv, TypeOK, LockHeld, InFlight, LockSet, SetIsFree, committed
<1>3. Phases'
  BY <1>0 DEF IndInv, TypeOK, Phases, InFlight, Binds, LockSet, SetIsFree, committed
<1>4. Views'
  <2>1. ASSUME NEW u \in Txns \ {t} PROVE ViewOf(u)'
    BY ViewIsKept DEF IndInv, TypeOK, Views, LockSet, SetIsFree, committed
  <2>2. ViewOf(t)'
    BY <1>0 DEF IndInv, TypeOK, Phases, Views, ViewOf, Wrote, LockSet, SetIsFree, committed
  <2>3. QED
    BY <2>1, <2>2 DEF Views
<1>5. Dense' /\ CommittedPublished' /\ TrailAccounts'
  BY BookIsKept DEF IndInv, LockSet
<1>6. QED
  BY <1>1, <1>2, <1>3, <1>4, <1>5 DEF IndInv

LEMMA InsertVersionInv ==
  ASSUME IndInv, NEW t \in Txns, InsertVersion(t)
  PROVE  IndInv'
<1>0. pc[t] # "idle" => op[t] \in Op /\ op[t].set \in Sets /\ ModuleOf[op[t].set] \in Modules
  BY OpFields DEF IndInv
<1> DEFINE n == NextVersion(t)
<1>n. n \in Versions /\ Book!IsNext(op[t].set, n) /\ n # 0 /\ wrote[t] = NoWrites
  <2>1. wrote[t] = NoWrites
    BY DEF IndInv, Views, ViewOf, Wrote, InsertVersion
  <2>2. QED
    BY <2>1, NextIsFree DEF InsertVersion, Versions
<1>w. wrote'[t] = [v \in Versions |-> IF v = n THEN "draft" ELSE Untouched]
  BY <1>n DEF IndInv, TypeOK, NoWrites, InsertVersion
<1>1. TypeOK'
  <2>1. wrote' \in [Txns -> [Versions -> Statuses \cup {Untouched}]]
    BY <1>w DEF IndInv, TypeOK, InsertVersion, Statuses
  <2>2. added' \in [Txns -> Versions \cup {0}] /\ pc' \in [Txns -> InFlight \cup {"idle"}]
    BY <1>n DEF IndInv, TypeOK, InFlight, InsertVersion
  <2>3. QED
    BY <2>1, <2>2 DEF IndInv, TypeOK, InsertVersion, committed
<1>2. LockHeld'
  BY <1>0 DEF IndInv, TypeOK, LockHeld, InFlight, InsertVersion, committed
<1>3. Phases'
  BY <1>0 DEF IndInv, TypeOK, Phases, InFlight, Binds, InsertVersion, committed
<1>4. Views'
  <2>1. ASSUME NEW u \in Txns \ {t} PROVE ViewOf(u)'
    BY ViewIsKept DEF IndInv, TypeOK, Views, InsertVersion, committed
  <2>2. ViewOf(t)'
    <3>1. /\ op'[t] = op[t] /\ added'[t] = n /\ status' = status
          /\ \/ op[t].kind = "upsert" /\ pc'[t] = "targeted"
             \/ op[t].kind = "createVersion" /\ pc'[t] = "done"
      BY DEF IndInv, TypeOK, InsertVersion, committed
    <3>2. \A v \in Versions : View(t)'[v] = IF v = n THEN "draft" ELSE status[op[t].set][v]
      BY <3>1, <1>w, UntouchedAssumption DEF View, Statuses
    <3>3. Book!IsNext(op[t].set, added[t])'
      BY <3>1, <1>n DEF Book!IsNext
    <3>4. Wrote(t)'
      BY <3>1 DEF Wrote
    <3>5. QED
      BY <3>1, <3>2, <3>3, <3>4, <1>n DEF ViewOf
  <2>3. QED
    BY <2>1, <2>2 DEF Views
<1>5. Dense' /\ CommittedPublished' /\ TrailAccounts'
  BY BookIsKept DEF IndInv, InsertVersion
<1>6. QED
  BY <1>1, <1>2, <1>3, <1>4, <1>5 DEF IndInv

LEMMA SelectTargetInv ==
  ASSUME IndInv, NEW t \in Txns, SelectTarget(t)
  PROVE  IndInv'
<1>0. pc[t] # "idle" => op[t] \in Op /\ op[t].set \in Sets /\ ModuleOf[op[t].set] \in Modules
  BY OpFields DEF IndInv
<1>1. TypeOK'
  BY <1>0 DEF IndInv, TypeOK, InFlight, SelectTarget, Existing, committed
<1>2. LockHeld'
  BY <1>0 DEF IndInv, TypeOK, LockHeld, InFlight, SelectTarget, Existing, committed
<1>3. Phases'
  BY <1>0 DEF IndInv, TypeOK, Phases, InFlight, Binds, SelectTarget, Existing, committed
<1>4. Views'
  <2>1. ASSUME NEW u \in Txns \ {t} PROVE ViewOf(u)'
    BY ViewIsKept DEF IndInv, TypeOK, Views, SelectTarget, Existing, committed
  <2>2. ViewOf(t)'
    BY <1>0, SMTT(30) DEF IndInv, TypeOK, Phases, Views, ViewOf, Wrote, SelectTarget, Existing,
       committed, View, NoWrites
  <2>3. QED
    BY <2>1, <2>2 DEF Views
<1>5. Dense' /\ CommittedPublished' /\ TrailAccounts'
  BY BookIsKept DEF IndInv, SelectTarget
<1>6. QED
  BY <1>1, <1>2, <1>3, <1>4, <1>5 DEF IndInv

LEMMA DemoteInv ==
  ASSUME IndInv, NEW t \in Txns, DemoteOthers(t)
  PROVE  IndInv'
<1>0. pc[t] # "idle" => op[t] \in Op /\ op[t].set \in Sets /\ ModuleOf[op[t].set] \in Modules
  BY OpFields DEF IndInv
<1>1. TypeOK'
  <2>1. Demoted(t) \in [Versions -> Statuses \cup {Untouched}]
    BY DEF IndInv, TypeOK, Demoted, Statuses
  <2>2. QED
    BY <2>1 DEF IndInv, TypeOK, InFlight, DemoteOthers, committed
<1>2. LockHeld'
  BY <1>0 DEF IndInv, TypeOK, LockHeld, InFlight, DemoteOthers, Demoted, committed
<1>3. Phases'
  BY <1>0 DEF IndInv, TypeOK, Phases, InFlight, Binds, DemoteOthers, Demoted, committed
<1>4. Views'
  <2>1. ASSUME NEW u \in Txns \ {t} PROVE ViewOf(u)'
    BY ViewIsKept DEF IndInv, TypeOK, Views, DemoteOthers, Demoted, committed
  <2>2. ViewOf(t)'
    <3> DEFINE s == op[t].set
    <3>1. /\ op'[t] = op[t] /\ added'[t] = added[t] /\ status' = status
          /\ pc[t] = "targeted" /\ pc'[t] = "demoted" /\ wrote'[t] = Demoted(t)
          /\ op[t].kind \in {"publish", "upsert"}
      BY DEF IndInv, TypeOK, Phases, DemoteOthers, committed
    <3>2. Wrote(t) /\ Wrote(t)' /\ Target(t)' = Target(t) /\ ViewOf(t)
      BY <3>1 DEF IndInv, Views, Wrote, Target
    <3>3. ASSUME NEW v \in Versions \ {Target(t)}
          PROVE  View(t)'[v] = Book!Published(s, Target(t))[v]
      <4>1. View(t)[v] = status[s][v]
        BY <3>1, <3>2, <3>3 DEF ViewOf, View, NoWrites, Target
      <4>2. View(t)'[v] = IF View(t)[v] = "published" THEN "draft" ELSE View(t)[v]
        BY <3>1, <3>3, UntouchedAssumption DEF View, Demoted, Statuses
      <4>3. status[s][v] \in Statuses
        BY <1>0, <3>1 DEF IndInv, TypeOK
      <4>4. Book!Published(s, Target(t))[v] = IF status[s][v] = "none" THEN "none" ELSE "draft"
        BY <3>3 DEF Book!Published, Book!Versions, Versions
      <4>5. QED
        BY <4>1, <4>2, <4>3, <4>4 DEF Statuses
    <3>4. /\ \A w : Book!IsNext(s, w) => Book!IsNext(s, w)'
          /\ \A w : Book!Published(s, w)' = Book!Published(s, w)
      BY <3>1 DEF Book!IsNext, Book!Published
    <3>5. QED
      BY <3>1, <3>2, <3>3, <3>4 DEF ViewOf
  <2>3. QED
    BY <2>1, <2>2 DEF Views
<1>5. Dense' /\ CommittedPublished' /\ TrailAccounts'
  BY BookIsKept DEF IndInv, DemoteOthers
<1>6. QED
  BY <1>1, <1>2, <1>3, <1>4, <1>5 DEF IndInv

LEMMA PromoteInv ==
  ASSUME IndInv, NEW t \in Txns, PromoteTarget(t)
  PROVE  IndInv'
<1>0. pc[t] # "idle" => op[t] \in Op /\ op[t].set \in Sets /\ ModuleOf[op[t].set] \in Modules
  BY OpFields DEF IndInv
<1>g. Target(t) \in Versions /\ Wrote(t) /\ op[t].kind \in {"publish", "upsert"}
  <2>1. Wrote(t) /\ op[t].kind \in {"publish", "upsert"}
    BY DEF IndInv, Phases, Wrote, PromoteTarget
  <2>2. CASE op[t].kind = "publish"
    BY <2>1, <2>2, OpFields DEF IndInv, Target, PromoteTarget
  <2>3. CASE op[t].kind = "upsert"
    BY <2>1, <2>3 DEF IndInv, TypeOK, Views, ViewOf, Target
  <2>4. QED
    BY <2>1, <2>2, <2>3
<1>w. /\ wrote'[t] = [wrote[t] EXCEPT ![Target(t)] = "published"]
      /\ wrote'[t] \in [Versions -> Statuses \cup {Untouched}]
  BY <1>g DEF IndInv, TypeOK, PromoteTarget, Statuses
<1>1. TypeOK'
  BY <1>w DEF IndInv, TypeOK, InFlight, PromoteTarget, committed
<1>2. LockHeld'
  BY <1>0 DEF IndInv, TypeOK, LockHeld, InFlight, PromoteTarget, committed
<1>3. Phases'
  BY <1>0 DEF IndInv, TypeOK, Phases, InFlight, Binds, PromoteTarget, committed
<1>4. Views'
  <2>1. ASSUME NEW u \in Txns \ {t} PROVE ViewOf(u)'
    BY ViewIsKept DEF IndInv, TypeOK, Views, PromoteTarget, committed
  <2>2. ViewOf(t)'
    <3> DEFINE s == op[t].set
    <3>1. /\ op'[t] = op[t] /\ added'[t] = added[t] /\ status' = status
          /\ pc[t] = "demoted"
          /\ \/ op[t].kind = "upsert" /\ pc'[t] = "approved"
             \/ op[t].kind = "publish" /\ pc'[t] = "done"
      BY <1>g DEF IndInv, TypeOK, PromoteTarget, committed
    <3>2. Wrote(t)' /\ Target(t)' = Target(t) /\ ViewOf(t)
      BY <3>1 DEF IndInv, Views, Wrote, Target
    <3>3. ASSUME NEW v \in Versions
          PROVE  View(t)'[v] = Book!Published(s, Target(t))[v]
      <4>1. CASE v = Target(t)
        <5>1. wrote'[t][v] = "published"
          BY <1>g, <1>w, <4>1 DEF IndInv, TypeOK
        <5>2. QED
          BY <5>1, <4>1, UntouchedAssumption
          DEF View, Statuses, Book!Published, Book!Versions, Versions
      <4>2. CASE v # Target(t)
        <5>1. wrote'[t][v] = wrote[t][v]
          BY <1>g, <1>w, <4>2 DEF IndInv, TypeOK
        <5>2. View(t)'[v] = View(t)[v]
          BY <3>1, <5>1 DEF View
        <5>3. QED
          BY <3>1, <3>2, <4>2, <5>2 DEF ViewOf
      <4>3. QED
        BY <4>1, <4>2
    <3>4. /\ \A w : Book!IsNext(s, w) => Book!IsNext(s, w)'
          /\ \A w : Book!Published(s, w)' = Book!Published(s, w)
      BY <3>1 DEF Book!IsNext, Book!Published
    <3>5. QED
      BY <1>g, <3>1, <3>2, <3>3, <3>4 DEF ViewOf
  <2>3. QED
    BY <2>1, <2>2 DEF Views
<1>5. Dense' /\ CommittedPublished' /\ TrailAccounts'
  BY BookIsKept DEF IndInv, PromoteTarget
<1>6. QED
  BY <1>1, <1>2, <1>3, <1>4, <1>5 DEF IndInv

LEMMA ApproveInv ==
  ASSUME IndInv, NEW t \in Txns, ApproveBinding(t)
  PROVE  IndInv'
<1>0. pc[t] # "idle" => op[t] \in Op /\ op[t].set \in Sets /\ ModuleOf[op[t].set] \in Modules
  BY OpFields DEF IndInv
<1>1. TypeOK'
  BY <1>0 DEF IndInv, TypeOK, InFlight, ApproveBinding, MayBind, committed
<1>2. LockHeld'
  BY <1>0 DEF IndInv, TypeOK, LockHeld, InFlight, ApproveBinding, MayBind, committed
<1>3. Phases'
  <2>1. wrote[t] = NoWrites
    BY DEF IndInv, Views, ViewOf, Wrote, ApproveBinding
  <2>2. View(t) = status[op[t].set]
    BY <1>0, <2>1 DEF IndInv, TypeOK, View, NoWrites, ApproveBinding
  <2>3. ModuleOf[op[t].set] = op[t].module /\ PublishedIn(status[op[t].set]) # {}
    BY <2>2 DEF ApproveBinding, MayBind, PublishedIn
  <2>4. QED
    BY <2>3 DEF IndInv, TypeOK, Phases, InFlight, Binds, ApproveBinding, committed
<1>4. Views'
  <2>1. ASSUME NEW u \in Txns \ {t} PROVE ViewOf(u)'
    BY ViewIsKept DEF IndInv, TypeOK, Views, ApproveBinding, MayBind, committed
  <2>2. ViewOf(t)'
    BY <1>0 DEF IndInv, TypeOK, Phases, Views, ViewOf, Wrote, ApproveBinding, MayBind, committed
  <2>3. QED
    BY <2>1, <2>2 DEF Views
<1>5. Dense' /\ CommittedPublished' /\ TrailAccounts'
  BY BookIsKept DEF IndInv, ApproveBinding
<1>6. QED
  BY <1>1, <1>2, <1>3, <1>4, <1>5 DEF IndInv

LEMMA UpsertBindingInv ==
  ASSUME IndInv, NEW t \in Txns, UpsertBinding(t)
  PROVE  IndInv'
<1>0. pc[t] # "idle" => op[t] \in Op /\ op[t].set \in Sets /\ ModuleOf[op[t].set] \in Modules
  BY OpFields DEF IndInv
<1>1. TypeOK'
  BY <1>0 DEF IndInv, TypeOK, InFlight, UpsertBinding, committed
<1>2. LockHeld'
  BY <1>0 DEF IndInv, TypeOK, LockHeld, InFlight, UpsertBinding, committed
<1>3. Phases'
  BY <1>0 DEF IndInv, TypeOK, Phases, InFlight, Binds, UpsertBinding, committed
<1>4. Views'
  <2>1. ASSUME NEW u \in Txns \ {t} PROVE ViewOf(u)'
    BY ViewIsKept DEF IndInv, TypeOK, Views, UpsertBinding, committed
  <2>2. ViewOf(t)'
    <3> DEFINE s == op[t].set
    <3>1. /\ op'[t] = op[t] /\ added'[t] = added[t] /\ wrote'[t] = wrote[t] /\ status' = status
          /\ pc[t] = "approved" /\ pc'[t] = "done" /\ op[t].kind \in {"bind", "upsert"}
      BY DEF IndInv, TypeOK, Phases, Binds, UpsertBinding, committed
    <3>2. Wrote(t)' = Wrote(t) /\ Target(t)' = Target(t) /\ View(t)' = View(t) /\ ViewOf(t)
      BY <3>1 DEF IndInv, Views, Wrote, Target, View
    <3>3. /\ \A w : Book!IsNext(s, w) => Book!IsNext(s, w)'
          /\ \A w : Book!Published(s, w)' = Book!Published(s, w)
      BY <3>1 DEF Book!IsNext, Book!Published
    <3>4. QED
      BY <3>1, <3>2, <3>3 DEF ViewOf
  <2>3. QED
    BY <2>1, <2>2 DEF Views
<1>5. Dense' /\ CommittedPublished' /\ TrailAccounts'
  BY BookIsKept DEF IndInv, UpsertBinding
<1>6. QED
  BY <1>1, <1>2, <1>3, <1>4, <1>5 DEF IndInv

\* A transaction that ends gives its locks back and touches no other.
LEMMA EndsLocal ==
  ASSUME IndInv, NEW t \in Txns, Ends(t)
  PROVE  /\ pc' \in [Txns -> InFlight \cup {"idle"}]
         /\ op' \in [Txns -> Op \cup {NoOp}]
         /\ wrote' \in [Txns -> [Versions -> Statuses \cup {Untouched}]]
         /\ added' \in [Txns -> Versions \cup {0}]
         /\ setLock' \in [Sets -> Txns \cup {Nobody}]
         /\ bindLock' \in [Modules -> Txns \cup {Nobody}]
         /\ LockHeld'
<1>1. NoWrites \in [Versions -> Statuses \cup {Untouched}]
  BY DEF NoWrites
<1>2. /\ pc' \in [Txns -> InFlight \cup {"idle"}]
      /\ op' \in [Txns -> Op \cup {NoOp}]
      /\ added' \in [Txns -> Versions \cup {0}]
  BY DEF IndInv, TypeOK, Ends
<1>3. wrote' \in [Txns -> [Versions -> Statuses \cup {Untouched}]]
  BY <1>1 DEF IndInv, TypeOK, Ends
<1>4. /\ setLock' \in [Sets -> Txns \cup {Nobody}]
      /\ bindLock' \in [Modules -> Txns \cup {Nobody}]
  BY DEF IndInv, TypeOK, Ends
<1>5. LockHeld'
  <2>1. ASSUME NEW u \in Txns, pc'[u] \in InFlight \ {"begun"} PROVE setLock'[op'[u].set] = u
    <3>1. u # t /\ pc'[u] = pc[u] /\ op'[u] = op[u]
      BY <2>1 DEF IndInv, TypeOK, InFlight, Ends
    <3>2. setLock[op[u].set] = u /\ op[u].set \in Sets
      BY <2>1, <3>1, OpFields DEF IndInv, LockHeld, InFlight
    <3>3. QED
      BY <3>1, <3>2 DEF Ends
  <2>2. ASSUME NEW s \in Sets, NEW u \in Txns, setLock'[s] = u
        PROVE  pc'[u] \in InFlight \ {"begun"} /\ op'[u].set = s
    <3>1. u # t /\ setLock[s] = u
      BY <2>2, NobodyAssumption DEF Ends
    <3>2. QED
      BY <3>1 DEF IndInv, TypeOK, LockHeld, Ends
  <2>3. QED
    BY <2>1, <2>2 DEF LockHeld
<1>6. QED
  BY <1>2, <1>3, <1>4, <1>5

LEMMA RollbackInv ==
  ASSUME IndInv, NEW t \in Txns, Ends(t), UNCHANGED committed
  PROVE  IndInv'
<1>1. TypeOK' /\ LockHeld'
  BY EndsLocal DEF IndInv, TypeOK, committed
<1>2. Phases'
  BY DEF IndInv, TypeOK, Phases, InFlight, Binds, Ends, committed
<1>3. Views'
  <2>1. ASSUME NEW u \in Txns \ {t} PROVE ViewOf(u)'
    BY ViewIsKept DEF IndInv, TypeOK, Views, Ends, committed
  <2>2. ViewOf(t)'
    BY DEF IndInv, TypeOK, ViewOf, Wrote, Ends
  <2>3. QED
    BY <2>1, <2>2 DEF Views
<1>4. Dense' /\ CommittedPublished' /\ TrailAccounts'
  BY BookIsKept DEF IndInv
<1>5. QED
  BY <1>1, <1>2, <1>3, <1>4 DEF IndInv

\* What a COMMIT makes of the versions of the set: the transaction's view is
\* what the operation would do to the committed versions at one instant.
LEMMA CommitIsAtomic ==
  ASSUME IndInv, NEW t \in Txns, pc[t] = "done"
  PROVE  LET s == op[t].set IN
         /\ op[t] \in Op /\ s \in Sets /\ ModuleOf[s] \in Modules
         /\ View(t) \in [Versions -> Statuses]
         /\ op[t].kind = "createSet" => s \notin created /\ View(t) = status[s]
         /\ op[t].kind # "createSet" /\ op[t].kind # "upsert" => s \in created
         /\ op[t].kind = "bind" => View(t) = status[s] /\ PublishedIn(status[s]) # {}
         /\ op[t].kind = "createVersion" =>
              /\ Target(t) \in Versions /\ Book!IsNext(s, Target(t))
              /\ View(t) = [status[s] EXCEPT ![Target(t)] = "draft"]
         /\ op[t].kind = "publish" =>
              /\ Target(t) \in Versions /\ status[s][Target(t)] # "none"
              /\ View(t) = Book!Published(s, Target(t))
         /\ op[t].kind = "upsert" =>
              /\ Target(t) \in Versions /\ Book!IsNext(s, Target(t))
              /\ View(t) = Book!Published(s, Target(t))
<1> DEFINE s == op[t].set
<1>1. op[t] \in Op /\ s \in Sets /\ ModuleOf[s] \in Modules
      /\ (op[t].kind = "publish" => op[t].version \in Versions)
  BY OpFields DEF IndInv
<1>2. /\ op[t].kind = "createSet" => s \notin created
      /\ op[t].kind # "createSet" /\ op[t].kind # "upsert" => s \in created
      /\ op[t].kind = "bind" => PublishedIn(status[s]) # {}
  BY <1>1 DEF IndInv, Phases, InFlight, Op
<1>3. status[s] \in [Versions -> Statuses]
  BY <1>1 DEF IndInv, TypeOK
<1>4. View(t) \in [Versions -> Statuses]
  BY <1>3 DEF IndInv, TypeOK, View
<1>5. CASE op[t].kind \in {"createSet", "bind"}
  <2>1. wrote[t] = NoWrites
    BY <1>5 DEF IndInv, Views, ViewOf, Wrote
  <2>2. View(t) = status[s]
    BY <2>1, <1>3 DEF View, NoWrites
  <2>3. QED
    BY <1>1, <1>2, <1>4, <1>5, <2>2
<1>6. CASE op[t].kind = "createVersion"
  <2>1. /\ added[t] \in Versions /\ Book!IsNext(s, added[t])
        /\ \A v \in Versions : View(t)[v] = IF v = added[t] THEN "draft" ELSE status[s][v]
    BY <1>6 DEF IndInv, TypeOK, Views, ViewOf, Wrote
  <2>2. View(t) = [status[s] EXCEPT ![added[t]] = "draft"]
    BY <2>1, <1>3, <1>4
  <2>3. QED
    BY <1>1, <1>2, <1>4, <1>6, <2>1, <2>2 DEF Target
<1>7. CASE op[t].kind \in {"publish", "upsert"}
  <2>1. /\ Wrote(t) /\ ViewOf(t)
        /\ \A v \in Versions : View(t)[v] = Book!Published(s, Target(t))[v]
    BY <1>7 DEF IndInv, Views, ViewOf, Wrote
  <2>2. View(t) = Book!Published(s, Target(t))
    BY <2>1 DEF View, Book!Published, Book!Versions, Versions
  <2>3. op[t].kind = "publish" => Target(t) \in Versions /\ status[s][Target(t)] # "none"
    BY <1>1, <2>1 DEF ViewOf, Target
  <2>4. op[t].kind = "upsert" => Target(t) \in Versions /\ Book!IsNext(s, Target(t))
    BY <2>1 DEF IndInv, TypeOK, ViewOf, Target
  <2>5. QED
    BY <1>1, <1>2, <1>4, <1>7, <2>2, <2>3, <2>4
<1>8. QED
  BY <1>1, <1>5, <1>6, <1>7 DEF Op

\* A COMMIT is one step of the abstract book.
LEMMA CommitRefines ==
  ASSUME IndInv, NEW t \in Txns, Commit(t)
  PROVE  Book!Next
<1> DEFINE s == op[t].set
<1>1. pc[t] = "done" /\ op[t] \in Op /\ s \in Sets /\ status \in [Sets -> [Versions -> Statuses]]
  BY CommitIsAtomic DEF Commit, IndInv, TypeOK
<1>2. CASE op[t].kind = "createSet"
  <2>1. Book!CreateSet(s)
    BY <1>1, <1>2, CommitIsAtomic DEF Commit, EventOf, Binds, Book!CreateSet, Book!Audit
  <2>2. QED
    BY <1>1, <2>1 DEF Book!Next
<1>3. CASE op[t].kind = "createVersion"
  <2>1. /\ s \in created /\ Target(t) \in Versions /\ Book!IsNext(s, Target(t))
        /\ View(t) = [status[s] EXCEPT ![Target(t)] = "draft"]
    BY <1>1, <1>3, CommitIsAtomic
  <2>2. created' = created /\ binding' = binding
    BY <1>3, <2>1 DEF Commit, Binds
  <2>3. status' = [status EXCEPT ![s][Target(t)] = "draft"]
    BY <1>1, <2>1 DEF Commit
  <2>4. Book!Audit("version_created", s, Target(t))
    BY <1>3 DEF Commit, EventOf, Book!Audit
  <2>5. QED
    BY <1>1, <2>1, <2>2, <2>3, <2>4 DEF Book!Next, Book!CreateVersion, Book!Versions, Versions
<1>4. CASE op[t].kind = "publish"
  <2>1. /\ s \in created /\ Target(t) \in Versions /\ status[s][Target(t)] # "none"
        /\ View(t) = Book!Published(s, Target(t))
    BY <1>1, <1>4, CommitIsAtomic
  <2>2. created' = created /\ binding' = binding
    BY <1>4, <2>1 DEF Commit, Binds
  <2>3. Book!Audit("published", s, Target(t))
    BY <1>4 DEF Commit, EventOf, Book!Audit
  <2>4. QED
    BY <1>1, <2>1, <2>2, <2>3 DEF Commit, Book!Next, Book!Publish, Book!Versions, Versions
<1>5. CASE op[t].kind = "bind"
  <2>1. Book!Bind(s)
    BY <1>1, <1>5, CommitIsAtomic
    DEF Commit, EventOf, Binds, PublishedIn, Book!Bind, Book!Audit, Book!Versions, Versions
  <2>2. QED
    BY <1>1, <2>1 DEF Book!Next
<1>6. CASE op[t].kind = "upsert"
  <2>1. Book!Upsert(s, Target(t)) /\ Target(t) \in Book!Versions
    BY <1>1, <1>6, CommitIsAtomic
    DEF Commit, EventOf, Binds, Book!Upsert, Book!Audit, Book!Versions, Versions
  <2>2. QED
    BY <1>1, <2>1 DEF Book!Next
<1>7. QED
  BY <1>1, <1>2, <1>3, <1>4, <1>5, <1>6 DEF Op

\* The rows that are committed are sound: the part of the invariant that is
\* about the book alone is kept by every step of the book.
LEMMA BookStep ==
  ASSUME TypeOK, Dense, CommittedPublished, TrailAccounts, Book!Next
  PROVE  Dense' /\ CommittedPublished' /\ TrailAccounts'
<1> USE DEF Book!Versions, Book!Audit
<1>1. PICK s \in Sets : \/ Book!CreateSet(s) \/ Book!Bind(s)
                        \/ \E v \in Versions :
                             \/ Book!CreateVersion(s, v) \/ Book!Publish(s, v)
                             \/ Book!Upsert(s, v)
  BY DEF Book!Next, Versions
<1>2. CASE Book!CreateSet(s)
  BY <1>2 DEF Book!CreateSet, Dense, CommittedPublished, BoundIsServed, TrailAccounts,
     Audited, PublishedIn
<1>3. CASE Book!Bind(s)
  <2>1. Dense' /\ TrailAccounts'
    BY <1>3 DEF Book!Bind, Dense, TrailAccounts, Audited, TypeOK
  <2>2. CommittedPublished'
    <3>1. s \in created /\ created' = created /\ status' = status
          /\ \E v \in Versions : PublishedIn(status[s]) = {v}
      BY <1>3 DEF Book!Bind, CommittedPublished, AtMostOne, PublishedIn, Versions
    <3>2. \A m \in Modules : binding'[m] = IF m = ModuleOf[s] THEN s ELSE binding[m]
      BY <1>3 DEF Book!Bind, TypeOK
    <3>3. BoundIsServed'
      BY <3>1, <3>2 DEF CommittedPublished, BoundIsServed, PublishedIn
    <3>4. QED
      BY <3>1, <3>3 DEF CommittedPublished, PublishedIn
  <2>3. QED
    BY <2>1, <2>2
<1>4. ASSUME NEW v \in Versions, Book!CreateVersion(s, v) \/ Book!Publish(s, v) \/ Book!Upsert(s, v)
      PROVE  Dense' /\ CommittedPublished' /\ TrailAccounts'
  <2>1. Dense'
    <3>1. ASSUME NEW u \in Sets
          PROVE  \E n \in 0 .. MaxVersion :
                   /\ \A w \in Versions : status'[u][w] # "none" <=> w <= n
                   /\ n > 0 => u \in created'
      <4>1. PICK n \in 0 .. MaxVersion :
              /\ \A w \in Versions : status[u][w] # "none" <=> w <= n
              /\ n > 0 => u \in created
        BY DEF Dense
      <4>2. CASE u # s \/ Book!Publish(s, v)
        <5>1. \A w \in Versions : status'[u][w] # "none" <=> status[u][w] # "none"
          BY <1>4, <4>2 DEF TypeOK, Book!CreateVersion, Book!Publish, Book!Upsert,
                            Book!Published, Statuses, Versions
        <5>2. created \subseteq created'
          BY <1>4 DEF Book!CreateVersion, Book!Publish, Book!Upsert
        <5>3. QED
          BY <4>1, <5>1, <5>2
      <4>3. CASE u = s /\ ~Book!Publish(s, v)
        <5>1. \A w \in Versions : status'[s][w] # "none" <=> w <= v
          <6>1. \A w \in Versions : status[s][w] # "none" <=> w < v
            BY <1>4, <4>3 DEF Book!CreateVersion, Book!Upsert, Book!IsNext, Versions
          <6>2. \A w \in Versions : status'[s][w] # "none" <=> w = v \/ status[s][w] # "none"
            BY <1>4, <4>3 DEF TypeOK, Book!CreateVersion, Book!Upsert, Book!Published, Versions
          <6>3. QED
            BY <6>1, <6>2 DEF Versions
        <5>2. s \in created' /\ v \in 0 .. MaxVersion
          BY <1>4, <4>3 DEF Book!CreateVersion, Book!Upsert, Versions
        <5>3. QED
          BY <4>3, <5>1, <5>2
      <4>4. QED
        BY <4>2, <4>3
    <3>2. QED
      BY <3>1 DEF Dense
  <2>2. CommittedPublished'
    <3>1. CASE Book!CreateVersion(s, v)
      <4>1. status[s][v] = "none"
        BY <3>1 DEF Book!CreateVersion, Book!IsNext, Versions
      <4>2. ASSUME NEW u \in Sets PROVE PublishedIn(status'[u]) = PublishedIn(status[u])
        BY <3>1, <4>1 DEF TypeOK, Book!CreateVersion, PublishedIn
      <4>3. created' = created /\ binding' = binding
        BY <3>1 DEF Book!CreateVersion
      <4>4. QED
        BY <4>2, <4>3 DEF CommittedPublished, BoundIsServed, TypeOK
    <3>2. CASE Book!Publish(s, v) \/ Book!Upsert(s, v)
      <4>1. PublishedIn(status'[s]) = {v}
        <5>1. status'[s] = Book!Published(s, v)
          BY <3>2 DEF TypeOK, Book!Publish, Book!Upsert
        <5>2. \A w \in Versions : Book!Published(s, v)[w] = "published" <=> w = v
          BY DEF Book!Published, Versions
        <5>3. QED
          BY <5>1, <5>2 DEF PublishedIn
      <4>2. \A u \in Sets \ {s} : status'[u] = status[u]
        BY <3>2 DEF TypeOK, Book!Publish, Book!Upsert
      <4>3. created \subseteq created' /\ s \in created'
        BY <3>2 DEF Book!Publish, Book!Upsert
      <4>4. ASSUME NEW m \in Modules
            PROVE  binding'[m] = binding[m] \/ (binding'[m] = s /\ ModuleOf[s] = m)
        <5>1. CASE Book!Publish(s, v)
          BY <5>1 DEF Book!Publish
        <5>2. CASE Book!Upsert(s, v)
          BY <5>2 DEF TypeOK, Book!Upsert
        <5>3. QED
          BY <3>2, <5>1, <5>2
      <4>5. \A u \in Sets : AtMostOne(PublishedIn(status'[u]))
        BY <4>1, <4>2 DEF CommittedPublished, AtMostOne
      <4>6. ASSUME NEW m \in Modules, binding'[m] # Unbound
            PROVE  /\ ModuleOf[binding'[m]] = m
                   /\ binding'[m] \in created'
                   /\ \E w \in Versions : PublishedIn(status'[binding'[m]]) = {w}
        <5>1. CASE binding'[m] = s
          BY <4>1, <4>3, <4>4, <4>6, <5>1 DEF CommittedPublished, BoundIsServed
        <5>2. CASE binding'[m] # s
          <6>1. binding'[m] = binding[m] /\ binding[m] \in Sets \ {s}
            BY <4>4, <4>6, <5>2 DEF TypeOK
          <6>2. status'[binding[m]] = status[binding[m]]
            BY <4>2, <6>1
          <6>3. /\ ModuleOf[binding[m]] = m
                /\ binding[m] \in created
                /\ \E w \in Versions : PublishedIn(status[binding[m]]) = {w}
            BY <4>6, <6>1 DEF CommittedPublished, BoundIsServed
          <6>4. QED
            BY <4>3, <6>1, <6>2, <6>3
        <5>3. QED
          BY <5>1, <5>2
      <4>7. QED
        BY <4>5, <4>6 DEF CommittedPublished, BoundIsServed
    <3>3. QED
      BY <1>4, <3>1, <3>2
  <2>3. TrailAccounts'
    <3>1. trail \subseteq trail'
      BY <1>4 DEF Book!CreateVersion, Book!Publish, Book!Upsert
    <3>2. ASSUME NEW u \in Sets, NEW w \in Versions
          PROVE  /\ status'[u][w] # "none" =>
                      Audited("version_created", u, w)' \/ Audited("upserted", u, w)'
                 /\ status'[u][w] = "published" =>
                      Audited("published", u, w)' \/ Audited("upserted", u, w)'
      <4>1. CASE u = s /\ w = v
        BY <1>4, <3>1, <4>1
        DEF TypeOK, TrailAccounts, Audited, Book!CreateVersion, Book!Publish, Book!Upsert,
            Book!Published
      <4>2. CASE ~(u = s /\ w = v)
        <5>1. status'[u][w] = status[u][w] \/ (status[u][w] # "none" /\ status'[u][w] = "draft")
          BY <1>4, <4>2
          DEF TypeOK, Book!CreateVersion, Book!Publish, Book!Upsert, Book!Published, Versions,
              Statuses
        <5>2. QED
          BY <3>1, <5>1 DEF TrailAccounts, Audited
      <4>3. QED
        BY <4>1, <4>2
    <3>3. ASSUME NEW m \in Modules, binding'[m] # Unbound
          PROVE  \/ Audited("bound", binding[m], 0)'
                 \/ \E w \in Versions : Audited("upserted", binding[m], w)'
      <4>1. CASE binding'[m] = binding[m]
        BY <3>1, <3>3, <4>1 DEF TrailAccounts, Audited
      <4>2. CASE binding'[m] # binding[m]
        <5>1. Book!Upsert(s, v) /\ binding'[m] = s
          BY <1>4, <4>2 DEF TypeOK, Book!CreateVersion, Book!Publish, Book!Upsert
        <5>2. QED
          BY <5>1 DEF Book!Upsert, Audited
      <4>3. QED
        BY <4>1, <4>2
    <3>4. QED
      BY <3>2, <3>3 DEF TrailAccounts
  <2>4. QED
    BY <2>1, <2>2, <2>3
<1>5. QED
  BY <1>1, <1>2, <1>3, <1>4

LEMMA CommitInv ==
  ASSUME IndInv, NEW t \in Txns, Commit(t)
  PROVE  IndInv'
<1> DEFINE s == op[t].set
<1>1. /\ pc[t] = "done" /\ Ends(t) /\ op[t] \in Op
      /\ s \in Sets /\ ModuleOf[s] \in Modules /\ View(t) \in [Versions -> Statuses]
  BY CommitIsAtomic DEF Commit
<1>2. EventOf(t) \in Event
  <2>1. op[t].kind \in {"createVersion", "publish", "upsert"} => Target(t) \in Versions
    BY <1>1, CommitIsAtomic
  <2>2. QED
    BY <1>1, <2>1 DEF EventOf, Event, Op
<1>3. TypeOK' /\ LockHeld'
  BY <1>1, <1>2, EndsLocal DEF IndInv, TypeOK, Commit
<1>4. ASSUME NEW u \in Txns \ {t}, pc[u] \in InFlight \ {"begun"}
      PROVE  op[u].set \in Sets \ {s} /\ status'[op[u].set] = status[op[u].set]
  <2>1. setLock[s] = t /\ setLock[op[u].set] = u /\ op[u].set \in Sets
    BY <1>1, <1>4, OpFields DEF IndInv, LockHeld, InFlight
  <2>2. QED
    BY <2>1 DEF IndInv, TypeOK, Commit
<1>5. Phases'
  <2>1. ASSUME NEW u \in Txns \ {t}, pc[u] \in InFlight \ {"begun"}
        PROVE  (op[u].set \in created' <=> op[u].set \in created)
               /\ PublishedIn(status'[op[u].set]) = PublishedIn(status[op[u].set])
    BY <1>4, <2>1 DEF Commit
  <2>2. \A u \in Txns \ {t} : pc'[u] = pc[u] /\ op'[u] = op[u]
    BY <1>1 DEF IndInv, TypeOK, Ends
  <2>3. pc'[t] = "idle" /\ op'[t] = NoOp
    BY <1>1 DEF IndInv, TypeOK, Ends
  <2>4. QED
    BY <2>1, <2>2, <2>3 DEF IndInv, Phases, Binds, InFlight
<1>6. Views'
  <2>1. ASSUME NEW u \in Txns \ {t} PROVE ViewOf(u)'
    <3>1. /\ pc'[u] = pc[u] /\ op'[u] = op[u] /\ wrote'[u] = wrote[u] /\ added'[u] = added[u]
          /\ pc[u] \in InFlight \cup {"idle"} /\ ViewOf(u)
      BY <1>1 DEF IndInv, TypeOK, Views, Ends
    <3>2. pc[u] \in {"idle", "begun"} \/ status'[op[u].set] = status[op[u].set]
      BY <1>4, <3>1 DEF InFlight
    <3>3. QED
      BY <3>1, <3>2, ViewIsKept
  <2>2. ViewOf(t)'
    BY <1>1 DEF IndInv, TypeOK, ViewOf, Wrote, Ends
  <2>3. QED
    BY <2>1, <2>2 DEF Views
<1>7. Dense' /\ CommittedPublished' /\ TrailAccounts'
  BY CommitRefines, BookStep DEF IndInv
<1>8. QED
  BY <1>3, <1>5, <1>6, <1>7 DEF IndInv

LEMMA StepInv == IndInv /\ [Next]_vars => IndInv'
<1> SUFFICES ASSUME IndInv, [Next]_vars PROVE IndInv'
  OBVIOUS
<1>1. ASSUME NEW t \in Txns, NEW o \in Op, Begin(t, o) PROVE IndInv'
  BY <1>1, BeginInv
<1>2. ASSUME NEW t \in Txns, Proceed(t) PROVE IndInv'
  BY <1>2, LockSetInv, InsertVersionInv, SelectTargetInv, DemoteInv, PromoteInv,
     ApproveInv, UpsertBindingInv, CommitInv, RollbackInv DEF Proceed, Refuse
<1>3. ASSUME NEW t \in Txns, Fail(t) PROVE IndInv'
  BY <1>3, RollbackInv DEF Fail
<1>4. CASE UNCHANGED vars
  <2>1. TypeOK' /\ LockHeld' /\ Phases'
    BY <1>4 DEF IndInv, TypeOK, LockHeld, Phases, Binds, vars
  <2>2. Views'
    BY <1>4, ViewIsKept DEF IndInv, Views, vars
  <2>3. Dense' /\ CommittedPublished' /\ TrailAccounts'
    BY <1>4 DEF IndInv, Dense, CommittedPublished, BoundIsServed, TrailAccounts, Audited, vars
  <2>4. QED
    BY <2>1, <2>2, <2>3 DEF IndInv
<1>5. QED
  BY <1>1, <1>2, <1>3, <1>4 DEF Next

THEOREM Invariance == Spec => []IndInv
  BY InitInv, StepInv, PTL DEF Spec

\* Every variable keeps its type.
THEOREM TypeCorrect == Spec => []TypeOK
<1>1. IndInv => TypeOK
  BY DEF IndInv
<1>2. QED
  BY <1>1, Invariance, PTL

\* UNIQUE (policy_set_id, version) is never hit: the lock on the row of the
\* set, taken by every method that inserts a version, makes MAX(version) + 1
\* a number of the transaction's own.
THEOREM NumbersAreFresh == Spec => []VersionNumbersAreFresh
<1>1. IndInv => VersionNumbersAreFresh
  <2> SUFFICES ASSUME IndInv, NEW t \in Txns, added[t] # 0
               PROVE  /\ status[op[t].set][added[t]] = "none"
                      /\ \A u \in Txns \ {t} : op[u] # NoOp /\ op[u].set = op[t].set
                                                => added[u] # added[t]
    BY DEF VersionNumbersAreFresh
  <2>1. Book!IsNext(op[t].set, added[t]) /\ added[t] \in Versions /\ Wrote(t)
    BY DEF IndInv, TypeOK, Views, ViewOf
  <2>2. status[op[t].set][added[t]] = "none"
    BY <2>1 DEF Book!IsNext, Book!Versions, Versions
  <2>3. ASSUME NEW u \in Txns \ {t}, op[u] # NoOp, op[u].set = op[t].set, added[u] = added[t]
        PROVE  FALSE
    <3>1. Wrote(u)
      BY <2>3 DEF IndInv, Views, ViewOf
    <3>2. setLock[op[u].set] = u /\ setLock[op[t].set] = t
      BY <2>1, <3>1 DEF IndInv, LockHeld, Wrote, InFlight
    <3>3. QED
      BY <2>3, <3>2
  <2>4. QED
    BY <2>2, <2>3
<1>2. QED
  BY <1>1, Invariance, PTL

\* policy_versions_one_published_idx is never hit: neither the committed rows
\* nor what any statement sees ever has two published versions of a set.
THEOREM AtMostOnePublished == Spec => []OnePublished
<1>1. IndInv => OnePublished
  <2> SUFFICES ASSUME IndInv, NEW t \in Txns, op[t] # NoOp
               PROVE  AtMostOne(PublishedIn(View(t)))
    BY DEF IndInv, CommittedPublished, OnePublished
  <2> DEFINE s == op[t].set
  <2>1. /\ pc[t] # "idle" /\ s \in Sets /\ ViewOf(t) /\ pc[t] \in InFlight \cup {"idle"}
        /\ AtMostOne(PublishedIn(status[s]))
    BY OpFields DEF IndInv, TypeOK, Phases, Views, CommittedPublished
  <2>2. CASE wrote[t] = NoWrites
    <3>1. \A v \in Versions : View(t)[v] = status[s][v]
      BY <2>2 DEF View, NoWrites
    <3>2. QED
      BY <2>1, <3>1 DEF AtMostOne, PublishedIn
  <2>3. CASE Wrote(t) /\ (pc[t] = "targeted" \/ op[t].kind = "createVersion")
    <3>1. CASE op[t].kind = "publish"
      BY <2>1, <2>2, <2>3, <3>1 DEF ViewOf
    <3>2. CASE op[t].kind # "publish"
      <4>1. \A v \in Versions : View(t)[v] = IF v = added[t] THEN "draft" ELSE status[s][v]
        BY <2>1, <2>3, <3>2 DEF ViewOf, Wrote
      <4>2. PublishedIn(View(t)) \subseteq PublishedIn(status[s])
        BY <4>1 DEF PublishedIn
      <4>3. QED
        BY <2>1, <4>2 DEF AtMostOne
    <3>3. QED
      BY <3>1, <3>2
  <2>4. CASE Wrote(t) /\ pc[t] \in {"demoted", "approved", "done"} /\ op[t].kind # "createVersion"
    <3>1. \A v \in Versions \ {Target(t)} : View(t)[v] = Book!Published(s, Target(t))[v]
      BY <2>1, <2>4 DEF ViewOf
    <3>2. PublishedIn(View(t)) \subseteq {Target(t)}
      BY <3>1 DEF PublishedIn, Book!Published, Book!Versions, Versions
    <3>3. QED
      BY <3>2 DEF AtMostOne
  <2>5. QED
    BY <2>1, <2>2, <2>3, <2>4 DEF ViewOf, InFlight, Wrote
<1>2. QED
  BY <1>1, Invariance, PTL

\* getBoundPublishedSnapshot finds one snapshot of every module that was bound.
THEOREM BoundAlwaysServed == Spec => []BoundIsServed
<1>1. IndInv => BoundIsServed
  BY DEF IndInv, CommittedPublished
<1>2. QED
  BY <1>1, Invariance, PTL

\* The audit trail accounts for every version, publication and binding.
THEOREM TrailAccountsForAll == Spec => []TrailAccounts
<1>1. IndInv => TrailAccounts
  BY DEF IndInv
<1>2. QED
  BY <1>1, Invariance, PTL

\* The statement-level transactions implement the book of instantaneous
\* requests.
THEOREM Refinement == Spec => ImplementsPolicyBook
<1>1. Init => Book!Init
  BY DEF Init, Book!Init, Versions, Book!Versions
<1>2. IndInv /\ [Next]_vars => [Book!Next]_Book!vars
  <2> SUFFICES ASSUME IndInv, [Next]_vars PROVE Book!Next \/ UNCHANGED Book!vars
    OBVIOUS
  <2>1. ASSUME NEW t \in Txns, Commit(t) PROVE Book!Next
    BY <2>1, CommitRefines
  <2>2. ASSUME NEW t \in Txns, Proceed(t) \/ Fail(t) \/ (\E o \in Op : Begin(t, o)), ~Commit(t)
        PROVE  UNCHANGED Book!vars
    BY <2>2 DEF Proceed, Fail, Begin, LockSet, InsertVersion, SelectTarget, DemoteOthers,
                PromoteTarget, ApproveBinding, UpsertBinding, Refuse, committed, Book!vars
  <2>3. CASE UNCHANGED vars
    BY <2>3 DEF vars, Book!vars
  <2>4. QED
    BY <2>1, <2>2, <2>3 DEF Next
<1>3. QED
  BY <1>1, <1>2, Invariance, PTL DEF Spec, ImplementsPolicyBook, Book!Spec
-----------------------------------------------------------------------------
\* Only the upsert of a binding takes its row, and COMMIT or ROLLBACK is all
\* that is left to do then.
LEMMA BindLockStep == IndInv /\ BindLockIsLast /\ [Next]_vars => BindLockIsLast'
<1> SUFFICES ASSUME IndInv, BindLockIsLast, [Next]_vars PROVE BindLockIsLast'
  OBVIOUS
<1> USE DEF IndInv, TypeOK, BindLockIsLast
<1>1. CASE UNCHANGED vars
  BY <1>1 DEF vars
<1>2. ASSUME NEW t \in Txns, Ends(t)
      PROVE  BindLockIsLast'
  BY <1>2 DEF Ends
<1>3. ASSUME NEW t \in Txns, UpsertBinding(t)
      PROVE  BindLockIsLast'
  BY <1>3 DEF UpsertBinding
<1>4. ASSUME NEW t \in Txns, bindLock' = bindLock, pc[t] # "done",
             \E p : pc' = [pc EXCEPT ![t] = p]
      PROVE  BindLockIsLast'
  BY <1>4
<1>5. QED
  BY <1>1, <1>2, <1>3, <1>4 DEF Next, Begin, Proceed, LockSet, InsertVersion, SelectTarget,
     DemoteOthers, PromoteTarget, ApproveBinding, Commit, Refuse, Fail

\* Who has written a binding waits for nothing, and who holds the row of a set
\* can at most wait for a binding: no circle of transactions closes, for any
\* number of sets, modules and connections.  (requirePolicy before the UPSERT of
\* policy_bindings, in bindModulePolicy and upsertModulePolicy)
THEOREM TransactionsNeverDeadlock == Spec => []NoCircularWait
<1>1. Init => BindLockIsLast
  BY NobodyAssumption DEF Init, BindLockIsLast
<1>2. IndInv /\ BindLockIsLast => NoCircularWait
  <2> SUFFICES ASSUME IndInv, BindLockIsLast, NEW T \in SUBSET Txns, T # {}
               PROVE  \E t \in T : \A u \in T : ~WaitsFor(t, u)
    BY DEF NoCircularWait
  <2>1. \A t, u \in Txns : pc[t] \notin {"begun", "approved"} => ~WaitsFor(t, u)
    BY DEF WaitsFor
  <2>2. ASSUME NEW t \in Txns, NEW u \in Txns, WaitsFor(t, u), pc[t] = "begun"
        PROVE  pc[u] # "begun"
    <3>1. op[t].set \in Sets
      BY <2>2, OpFields DEF IndInv
    <3>2. QED
      BY <2>2, <3>1 DEF WaitsFor, IndInv, LockHeld
  <2>3. ASSUME NEW t \in Txns, NEW u \in Txns, WaitsFor(t, u), pc[t] = "approved"
        PROVE  pc[u] = "done"
    <3>1. ModuleOf[op[t].set] \in Modules
      BY <2>3, OpFields DEF IndInv
    <3>2. QED
      BY <2>3, <3>1 DEF WaitsFor, BindLockIsLast
  <2>4. CASE \E t \in T : pc[t] \notin {"begun", "approved"}
    BY <2>1, <2>4
  <2>5. CASE \A t \in T : pc[t] \in {"begun", "approved"}
    <3>1. CASE \E t \in T : pc[t] = "approved"
      BY <2>3, <2>5, <3>1
    <3>2. CASE \A t \in T : pc[t] = "begun"
      BY <2>2, <3>2
    <3>3. QED
      BY <2>5, <3>1, <3>2
  <2>6. QED
    BY <2>4, <2>5
<1>3. QED
  BY <1>1, <1>2, BindLockStep, Invariance, PTL DEF Spec
=============================================================================
