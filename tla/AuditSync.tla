------------------------------ MODULE AuditSync ------------------------------
(***************************************************************************)
(* The audit log of the desktop and its synchronization with the control   *)
(* API (desktop-shell: audit.service.ts).                                  *)
(*                                                                         *)
(* A batch is taken before it is sent and marked after the answer, while   *)
(* events are recorded, old ones fall out of the log and other dispatches  *)
(* are under way with some of the same events.  Every change writes the    *)
(* whole log to the store; writes may land in any order, or fail.  The     *)
(* server may have taken a batch whose answer is lost.                     *)
(*                                                                         *)
(* A definition named "...Slip" is a mistake one could make in the         *)
(* definition below it; the specification uses none.                       *)
(***************************************************************************)
EXTENDS Naturals, SequencesExt

CONSTANTS Events, Dispatches,
          LogSize,    \* 250 in the code
          BatchSize,  \* 100 in the code
          MaxWrites   \* bound: writes under way at once

ASSUME SizesAssumption == LogSize \in Nat /\ BatchSize \in Nat \ {0} /\ MaxWrites \in Nat

VARIABLES events,    \* AuditService.events: id and syncStatus, newest first
          recorded,  \* history: the events that were ever recorded
          todo,      \* the batches a dispatch has still to send
          taken,     \* the dispatches whose first batch the server took
          accepted,  \* the events the server has
          writes,    \* the logs of the setItem calls under way
          stored     \* the log in the store

auditVars == <<events, recorded, todo, taken, accepted, writes, stored>>

SyncStatuses == {"local_only", "pending", "synced", "failed"}
Logs == Seq([id : Events, status : SyncStatuses])

AuditTypeOK ==
  /\ events \in Logs /\ Len(events) <= LogSize
  /\ recorded \subseteq Events /\ accepted \subseteq recorded
  /\ todo \in [Dispatches -> Seq(SUBSET Events)]
  /\ taken \subseteq Dispatches
  /\ \A w \in writes : w \in Logs
  /\ stored \in Logs

AuditInit ==
  /\ events = <<>> /\ stored = <<>> /\ writes = {}
  /\ recorded = {} /\ accepted = {} /\ taken = {}
  /\ todo = [d \in Dispatches |-> <<>>]
-----------------------------------------------------------------------------
(* The bound: a change waits while too many writes are under way.          *)
Persist(log) == Cardinality(writes) < MaxWrites /\ writes' = writes \cup {log}

(* record(), under a plan that is synchronized or not.                     *)
Record(e, status) ==
  LET log == <<[id |-> e, status |-> status]>> \o events
  IN  /\ e \notin recorded
      /\ recorded' = recorded \cup {e}
      /\ events' = SubSeq(log, 1, Min({LogSize, Len(log)}))
      /\ Persist(events')
      /\ UNCHANGED <<todo, taken, accepted, stored>>

Pending == {i \in DOMAIN events : events[i].status = "pending"}
Ids(places) == {events[i].id : i \in places}

(* dispatchForPlan sends what is pending at once.                          *)
DispatchForPlan(d) ==
  /\ todo[d] = <<>> /\ Pending # {}
  /\ todo' = [todo EXCEPT ![d] = <<Ids(Pending)>>]
  /\ UNCHANGED <<events, recorded, taken, accepted, writes, stored>>

(* flushPendingEvents sends it in batches of a fixed size.                 *)
PendingBefore(i) == Cardinality({j \in Pending : j < i})
Batches ==
  [b \in 1 .. (Cardinality(Pending) + BatchSize - 1) \div BatchSize |->
     Ids({i \in Pending : PendingBefore(i) \div BatchSize = b - 1})]

Flush(d) ==
  /\ todo[d] = <<>> /\ Pending # {}
  /\ todo' = [todo EXCEPT ![d] = Batches]
  /\ UNCHANGED <<events, recorded, taken, accepted, writes, stored>>

ServerTakes(d) ==
  /\ todo[d] # <<>> /\ d \notin taken
  /\ accepted' = accepted \cup Head(todo[d])
  /\ taken' = taken \cup {d}
  /\ UNCHANGED <<events, recorded, todo, writes, stored>>

MarkedSlip(ids, status) ==
  [i \in DOMAIN events |->
     IF events[i].status = "pending" THEN [events[i] EXCEPT !.status = status] ELSE events[i]]
Marked(ids, status) ==
  [i \in DOMAIN events |->
     IF events[i].id \in ids THEN [events[i] EXCEPT !.status = status] ELSE events[i]]

(* The answer is good: on to the next batch, or done.                      *)
Succeed(d) ==
  /\ d \in taken
  /\ events' = Marked(Head(todo[d]), "synced")
  /\ todo' = [todo EXCEPT ![d] = Tail(@)]
  /\ taken' = taken \ {d}
  /\ IF todo'[d] = <<>> THEN Persist(events') ELSE UNCHANGED writes
  /\ UNCHANGED <<recorded, accepted, stored>>

(* No session, an error or no answer: the batch is failed for good, and    *)
(* the batches after it stay pending.                                      *)
Throw(d) ==
  /\ todo[d] # <<>>
  /\ events' = Marked(Head(todo[d]), "failed")
  /\ todo' = [todo EXCEPT ![d] = <<>>]
  /\ taken' = taken \ {d}
  /\ Persist(events')
  /\ UNCHANGED <<recorded, accepted, stored>>

Land(w) ==
  /\ stored' = w /\ writes' = writes \ {w}
  /\ UNCHANGED <<events, recorded, todo, taken, accepted>>

Drop(w) ==
  /\ writes' = writes \ {w}
  /\ UNCHANGED <<events, recorded, todo, taken, accepted, stored>>

(* The application is closed and opened again: create().                   *)
Restart ==
  /\ events' = stored
  /\ todo' = [d \in Dispatches |-> <<>>]
  /\ taken' = {} /\ writes' = {}
  /\ UNCHANGED <<recorded, accepted, stored>>

AuditNext ==
  \/ \E e \in Events, status \in {"pending", "local_only"} : Record(e, status)
  \/ \E d \in Dispatches :
       DispatchForPlan(d) \/ Flush(d) \/ ServerTakes(d) \/ Succeed(d) \/ Throw(d)
  \/ \E w \in writes : Land(w) \/ Drop(w)
  \/ Restart

AuditSpec == AuditInit /\ [][AuditNext]_auditVars
-----------------------------------------------------------------------------
(* Properties.                                                             *)

(* An event shown as synced, now or after any restart, is at the server:   *)
(* also when dispatches overlap, when events are recorded or fall out of   *)
(* the log while a batch is under way, and when old writes land last.      *)
(* (flushPendingEvents, dispatchForPlan)                                   *)
SyncedIsAccepted ==
  \A log \in {events, stored} \cup writes :
    \A i \in DOMAIN log : log[i].status = "synced" => log[i].id \in accepted

(* An event that was recorded under a plan that is not synchronized never  *)
(* reaches the server, whichever plan the program has by the time of a     *)
(* dispatch, and whichever log it was opened with.  (record, isCloudPlan)  *)
LocalStaysLocal ==
  \A log \in {events, stored} \cup writes :
    \A i \in DOMAIN log : log[i].status = "local_only" => log[i].id \notin accepted
-----------------------------------------------------------------------------
(* Why they hold.                                                          *)

\* No log, in memory or on its way to the store, is too long or names an event
\* that was not recorded.
LogsOK ==
  /\ recorded \subseteq Events
  /\ \A log \in {events, stored} \cup writes :
       /\ log \in Logs /\ Len(log) <= LogSize
       /\ \A i \in DOMAIN log : log[i].id \in recorded

\* What is sent was recorded.
SentIsRecorded ==
  /\ todo \in [Dispatches -> Seq(SUBSET recorded)]
  /\ accepted \subseteq recorded /\ taken \subseteq Dispatches

\* What a dispatch will mark as synced is what the server took from it.
TakenIsAccepted ==
  \A d \in taken : todo[d] # <<>> /\ Head(todo[d]) \subseteq accepted

(* The inductive invariant.                                                *)
AuditIndInv == LogsOK /\ SentIsRecorded /\ TakenIsAccepted /\ SyncedIsAccepted

\* The events that some log shows as local, those that some log shows otherwise,
\* and those that a dispatch has sent or is to send.
LocalIds ==
  UNION {{log[i].id : i \in {j \in DOMAIN log : log[j].status = "local_only"}} :
           log \in {events, stored} \cup writes}
OtherIds ==
  UNION {{log[i].id : i \in {j \in DOMAIN log : log[j].status # "local_only"}} :
           log \in {events, stored} \cup writes}
SentIds == accepted \cup UNION {UNION {todo[d][i] : i \in DOMAIN todo[d]} : d \in Dispatches}

\* No two logs disagree about an event, so that none is cut from an old log and sent.
LocalIsApart == LocalIds \cap (OtherIds \cup SentIds) = {}
=============================================================================
