--------------------------- MODULE AuditedAnswers ---------------------------
(***************************************************************************)
(* What an organization may rely on whose requests go through the gateway. *)
(* What its policy blocks never reaches a provider.  A request is answered *)
(* once: with what a provider said only if it was there, with a refusal    *)
(* only if it is blocked, and either is in the audit trail by then, under  *)
(* that decision.  With any other answer the trail may be silent, but it   *)
(* does not lie, and what it says is never changed.                        *)
(***************************************************************************)
CONSTANT Requests

VARIABLES blocked,  \* the requests that the policy blocks
          reached,  \* those that a provider has handled
          trail,    \* the event of each request
          told      \* its answer

vars == <<blocked, reached, trail, told>>

Forwarded == {"TOKENIZE", "ALLOW"}

Init ==
  /\ blocked = {} /\ reached = {}
  /\ trail = [r \in Requests |-> "nothing"]
  /\ told = [r \in Requests |-> "nothing"]

Block(r) ==
  /\ r \notin reached /\ told[r] = "nothing"
  /\ blocked' = blocked \cup {r}
  /\ UNCHANGED <<reached, trail, told>>

\* Also after an answer: the gateway may have given the provider up.
Reach(r) ==
  /\ r \notin blocked
  /\ reached' = reached \cup {r}
  /\ UNCHANGED <<blocked, trail, told>>

\* What the trail may say of r.
Truth(r) ==
  IF r \in reached THEN Forwarded ELSE IF r \in blocked THEN {"BLOCK"} ELSE {}

\* At one instant r is answered with a and the trail says e of it.
Answer(r, a, e) ==
  /\ told[r] = "nothing"
  /\ told' = [told EXCEPT ![r] = a]
  /\ trail' = [trail EXCEPT ![r] = e]
  /\ UNCHANGED <<blocked, reached>>

Pass(r) == r \in reached /\ \E e \in Truth(r) : Answer(r, "upstream", e)

Refuse(r) == r \in blocked /\ Answer(r, "blocked", "BLOCK")

Fail(r) ==
  \E a \in {"error", "unavailable"}, e \in Truth(r) \cup {"nothing"} : Answer(r, a, e)

Next == \E r \in Requests : Block(r) \/ Reach(r) \/ Pass(r) \/ Refuse(r) \/ Fail(r)

Spec == Init /\ [][Next]_vars
=============================================================================
