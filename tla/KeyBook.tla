------------------------------ MODULE KeyBook ------------------------------
(***************************************************************************)
(* What the owner of gateway keys may rely on: a key is issued once, may   *)
(* be replaced by one other key or revoked, and what is revoked or         *)
(* replaced never becomes valid again.  Each request happens at an instant.*)
(***************************************************************************)
CONSTANTS Keys, NoKey

VARIABLES issued,  \* the keys that were ever given out
          valid,   \* those that are not revoked
          heir     \* the key that replaced a key

vars == <<issued, valid, heir>>

Init == issued = {} /\ valid = {} /\ heir = [k \in Keys |-> NoKey]

Issue(k) ==
  /\ k \in Keys \ issued
  /\ issued' = issued \cup {k}
  /\ valid' = valid \cup {k}
  /\ UNCHANGED heir

Revoke(k) ==
  /\ k \in valid
  /\ valid' = valid \ {k}
  /\ UNCHANGED <<issued, heir>>

Replace(k, n) ==
  /\ k \in valid /\ n \in Keys \ issued
  /\ issued' = issued \cup {n}
  /\ valid' = (valid \ {k}) \cup {n}
  /\ heir' = [heir EXCEPT ![k] = n]

Next == \E k \in Keys : Issue(k) \/ Revoke(k) \/ \E n \in Keys : Replace(k, n)

Spec == Init /\ [][Next]_vars
=============================================================================
