--------------------------- MODULE ConnectionBook ---------------------------
(***************************************************************************)
(* What an organization may rely on that connects a provider: an OAuth     *)
(* state is used up by the one connection it becomes, for a callback that  *)
(* came before it expired; what is revoked stays revoked; and every one of *)
(* these steps is in the audit trail.  Each request happens at an instant. *)
(***************************************************************************)
CONSTANTS Callbacks, States

VARIABLES issued,   \* the states that were ever handed out
          unused,   \* those that have not become a connection
          expired,  \* those that are too old for a new callback
          due,      \* the callbacks under way that came in time
          active,   \* the connections in use
          trail     \* the audit events of connections

vars == <<issued, unused, expired, due, active, trail>>

Init ==
  /\ issued = {} /\ unused = {} /\ expired = {}
  /\ due = {} /\ active = {} /\ trail = {}

Issue(s) ==
  /\ s \notin issued
  /\ issued' = issued \cup {s} /\ unused' = unused \cup {s}
  /\ UNCHANGED <<expired, due, active, trail>>

Expire(s) ==
  /\ s \in issued
  /\ expired' = expired \cup {s}
  /\ UNCHANGED <<issued, unused, due, active, trail>>

ComeBack(c) ==
  /\ c.state \notin expired
  /\ due' = due \cup {c}
  /\ UNCHANGED <<issued, unused, expired, active, trail>>

Connect(c) ==
  /\ c \in due /\ c.state \in unused
  /\ unused' = unused \ {c.state}
  /\ due' = due \ {c}
  /\ active' = active \cup {c}
  /\ trail' = trail \cup {<<"connected", c>>}
  /\ UNCHANGED <<issued, expired>>

GiveUp(c) ==
  /\ c \in due /\ due' = due \ {c}
  /\ UNCHANGED <<issued, unused, expired, active, trail>>

Revoke(c) ==
  /\ c \in active
  /\ active' = active \ {c}
  /\ trail' = trail \cup {<<"revoked", c>>}
  /\ UNCHANGED <<issued, unused, expired, due>>

Next ==
  \/ \E s \in States : Issue(s) \/ Expire(s)
  \/ \E c \in [by : Callbacks, state : States] :
       ComeBack(c) \/ Connect(c) \/ GiveUp(c) \/ Revoke(c)

Spec == Init /\ [][Next]_vars
=============================================================================
