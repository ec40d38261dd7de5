---------------------------- MODULE MCControlApi ----------------------------
(***************************************************************************)
(* Small instances, for one run of TLC, of the two parts of the control    *)
(* API whose transactions wait for locks: the credit ledger and the        *)
(* bindings of the policy registry, with two sets of one module so that    *)
(* its binding can move.  The parts share no state.  A behaviour is about  *)
(* one of them, picked at the start, while the other stays as it begins:   *)
(* TLC explores the sum of the parts, not their product.                   *)
(***************************************************************************)
EXTENDS MCCreditLedger

CONSTANTS s1, s2, m1, Unbound, Untouched

VARIABLES part,
          created, status, binding, trail, setLock, bindLock, txn, doing, wrote, added

registryVars == <<created, status, binding, trail, setLock, bindLock, txn, doing, wrote, added>>

SetModules == [s \in {s1, s2} |-> m1]

Registry == INSTANCE PolicyRegistry WITH
  Txns <- Requests, Sets <- {s1, s2}, Modules <- {m1}, ModuleOf <- SetModules,
  MaxVersion <- 1, pc <- txn, op <- doing
-----------------------------------------------------------------------------
Parts == {"ledger", "registry"}

PartsInit ==
  /\ part \in Parts
  /\ Init /\ Registry!Init
  /\ part # "ledger" => row = [limit |-> 0, spend |-> 0, date |-> 1]

Pick(p) == part = p /\ UNCHANGED part

partsVars == <<part, vars, registryVars>>

PartsNext ==
  \/ Pick("ledger") /\ Next /\ UNCHANGED registryVars
  \/ Pick("registry") /\ Registry!Next /\ UNCHANGED vars

\* A connection goes on in the part that the behaviour is about.
PartProceeds(r) ==
  \/ Pick("ledger") /\ Proceed(r) /\ UNCHANGED registryVars
  \/ Pick("registry") /\ Registry!Proceed(r) /\ UNCHANGED vars

PartsSpec ==
  /\ PartsInit /\ [][PartsNext]_partsVars
  /\ \A r \in Requests : SF_partsVars(PartProceeds(r))
-----------------------------------------------------------------------------
(* Properties: those of CreditLedger and of the registry's bindings.       *)

(* See PolicyRegistry.                                                     *)
EveryTransactionEnds == Registry!EveryTransactionEnds
=============================================================================
