----------------------------- MODULE PolicyBook -----------------------------
(***************************************************************************)
(* What the policy registry promises to its callers: each request happens  *)
(* at one instant or not at all.  A set is created once, its versions are  *)
(* numbered 1, 2, 3, ... without a gap, publishing a version replaces the  *)
(* published one in the same instant, and a module is bound only to a set  *)
(* of its own that has a published version.                                *)
(***************************************************************************)
EXTENDS Integers

CONSTANTS Sets, Modules, ModuleOf, MaxVersion, Unbound

Versions == 1 .. MaxVersion

VARIABLES created, status, binding, trail

vars == <<created, status, binding, trail>>

Init ==
  /\ created = {}
  /\ status = [s \in Sets |-> [v \in Versions |-> "none"]]
  /\ binding = [m \in Modules |-> Unbound]
  /\ trail = {}

\* v is the number after the last one of the versions of s.
IsNext(s, v) == \A w \in Versions : status[s][w] # "none" <=> w < v

\* The versions of s once v is published.
Published(s, v) == [w \in Versions |->
  IF w = v THEN "published" ELSE IF status[s][w] = "none" THEN "none" ELSE "draft"]

Audit(type, s, v) == trail' = trail \cup {[type |-> type, set |-> s, version |-> v]}

CreateSet(s) ==
  /\ s \notin created
  /\ created' = created \cup {s}
  /\ Audit("created", s, 0)
  /\ UNCHANGED <<status, binding>>

CreateVersion(s, v) ==
  /\ s \in created
  /\ IsNext(s, v)
  /\ status' = [status EXCEPT ![s][v] = "draft"]
  /\ Audit("version_created", s, v)
  /\ UNCHANGED <<created, binding>>

Publish(s, v) ==
  /\ s \in created
  /\ status[s][v] # "none"
  /\ status' = [status EXCEPT ![s] = Published(s, v)]
  /\ Audit("published", s, v)
  /\ UNCHANGED <<created, binding>>

Bind(s) ==
  /\ s \in created
  /\ \E v \in Versions : status[s][v] = "published"
  /\ binding' = [binding EXCEPT ![ModuleOf[s]] = s]
  /\ Audit("bound", s, 0)
  /\ UNCHANGED <<created, status>>

\* A new version, published and bound, in a set that may be new too.
Upsert(s, v) ==
  /\ created' = created \cup {s}
  /\ IsNext(s, v)
  /\ status' = [status EXCEPT ![s] = Published(s, v)]
  /\ binding' = [binding EXCEPT ![ModuleOf[s]] = s]
  /\ Audit("upserted", s, v)

Next == \E s \in Sets :
  \/ CreateSet(s)
  \/ Bind(s)
  \/ \E v \in Versions : CreateVersion(s, v) \/ Publish(s, v) \/ Upsert(s, v)

Spec == Init /\ [][Next]_vars
=============================================================================
