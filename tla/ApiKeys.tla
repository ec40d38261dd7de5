------------------------------ MODULE ApiKeys ------------------------------
(***************************************************************************)
(* The gateway keys of an organization, created, rotated and revoked by    *)
(* the control API (storage/repository.ts) while the gateway looks them up *)
(* (sano-shield-proxy/src/auth/client-api-key-verifier.ts).                *)
(*                                                                         *)
(* A rotation takes the row of the old key FOR UPDATE; a revocation is an  *)
(* UPDATE of a row that is not revoked.  Either waits for whoever holds    *)
(* the row and then looks at it again.  What a transaction writes after    *)
(* that nobody sees before its COMMIT.  A key is its id, a random one.     *)
(*                                                                         *)
(* A definition named "...Slip" is a mistake one could make in the         *)
(* definition below it; the specification uses none.                       *)
(***************************************************************************)
CONSTANTS Conns, Keys, NoKey, Unlocked, NoKeyRequest

VARIABLES row,     \* client_api_keys, committed: none, valid, revoked
          expired, \* the keys whose expires_at has passed
          heir,    \* the key that gateway_api_key.rotated names for a key
          keyLock, \* the connection that holds a key's row
          keyPc,   \* a connection: idle, begun, written
          keyOp    \* its request

keyVars == <<row, expired, heir, keyLock, keyPc, keyOp>>

(* create has no old key, revoke no new one.                               *)
KeyRequests == [old : Keys \cup {NoKey}, new : Keys \cup {NoKey}]

ASSUME KeysAssumption ==
  /\ NoKey \notin Keys
  /\ Unlocked \notin Conns
  /\ NoKeyRequest \notin KeyRequests

KeysTypeOK ==
  /\ row \in [Keys -> {"none", "valid", "revoked"}]
  /\ expired \in SUBSET Keys
  /\ heir \in [Keys -> Keys \cup {NoKey}]
  /\ keyLock \in [Keys -> Conns \cup {Unlocked}]
  /\ keyPc \in [Conns -> {"idle", "begun", "written"}]
  /\ keyOp \in [Conns -> KeyRequests \cup {NoKeyRequest}]

KeysInit ==
  /\ row = [k \in Keys |-> "none"]
  /\ expired = {}
  /\ heir = [k \in Keys |-> NoKey]
  /\ keyLock = [k \in Keys |-> Unlocked]
  /\ keyPc = [c \in Conns |-> "idle"]
  /\ keyOp = [c \in Conns |-> NoKeyRequest]

Fresh(n) == row[n] = "none" /\ \A c \in Conns : keyOp[c] # NoKeyRequest => keyOp[c].new # n

(* The gateway's SELECT. An answer for a key that is valid at that moment  *)
(* stands, whatever happens to the key while the hash is compared.         *)
Resolves(k) == row[k] = "valid" /\ k \notin expired
-----------------------------------------------------------------------------
BeginKey(c, old, new) ==
  /\ keyPc[c] = "idle"
  /\ <<old, new>> # <<NoKey, NoKey>>
  /\ new # NoKey => Fresh(new)
  /\ keyPc' = [keyPc EXCEPT ![c] = "begun"]
  /\ keyOp' = [keyOp EXCEPT ![c] = [old |-> old, new |-> new]]
  /\ UNCHANGED <<row, expired, heir, keyLock>>

(* createGatewayApiKey: nobody else knows the new row.                     *)
Insert(c) ==
  /\ keyPc[c] = "begun" /\ keyOp[c].old = NoKey
  /\ keyPc' = [keyPc EXCEPT ![c] = "written"]
  /\ UNCHANGED <<row, expired, heir, keyLock, keyOp>>

(* rotateGatewayApiKey: SELECT ... FOR UPDATE; revokeGatewayApiKey: the    *)
(* UPDATE. Both only of a row that is not revoked, expired or not.         *)
FreeSlip(k) == TRUE
Free(k) == keyLock[k] = Unlocked

LockRow(c) ==
  LET k == keyOp[c].old
  IN  /\ keyPc[c] = "begun" /\ k # NoKey
      /\ Free(k) /\ row[k] = "valid"
      /\ keyLock' = [keyLock EXCEPT ![k] = c]
      /\ keyPc' = [keyPc EXCEPT ![c] = "written"]
      /\ UNCHANGED <<row, expired, heir, keyOp>>

Release(c) ==
  /\ keyLock' = [k \in Keys |-> IF keyLock[k] = c THEN Unlocked ELSE keyLock[k]]
  /\ keyPc' = [keyPc EXCEPT ![c] = "idle"]
  /\ keyOp' = [keyOp EXCEPT ![c] = NoKeyRequest]

(* The audit event and COMMIT.                                             *)
CommitKey(c) ==
  /\ keyPc[c] = "written"
  /\ row' = [k \in Keys |-> IF k = keyOp[c].old THEN "revoked"
                            ELSE IF k = keyOp[c].new THEN "valid" ELSE row[k]]
  /\ heir' = [k \in Keys |-> IF k = keyOp[c].old THEN keyOp[c].new ELSE heir[k]]
  /\ Release(c)
  /\ UNCHANGED expired

(* "Gateway API key does not exist.", a failed statement, a dead process.  *)
FailKey(c) ==
  /\ keyPc[c] # "idle"
  /\ Release(c)
  /\ UNCHANGED <<row, expired, heir>>

KeyExpires(k) ==
  /\ row[k] # "none" /\ k \notin expired
  /\ expired' = expired \cup {k}
  /\ UNCHANGED <<row, heir, keyLock, keyPc, keyOp>>

KeysNext ==
  \/ \E c \in Conns :
       \/ \E old \in Keys \cup {NoKey}, new \in Keys \cup {NoKey} : BeginKey(c, old, new)
       \/ Insert(c) \/ LockRow(c) \/ CommitKey(c) \/ FailKey(c)
  \/ \E k \in Keys : KeyExpires(k)

KeysSpec == KeysInit /\ [][KeysNext]_keyVars
-----------------------------------------------------------------------------
(* Properties.                                                             *)

(* Creating, rotating and revoking keys at the same time is as if each     *)
(* happened at one instant: a key that is revoked or replaced stays so,    *)
(* and of two rotations of a key only one gives out a successor.           *)
(* (createGatewayApiKey, rotateGatewayApiKey, revokeGatewayApiKey)         *)
KeysBook == INSTANCE KeyBook WITH
  issued <- {k \in Keys : row[k] # "none"},
  valid <- {k \in Keys : row[k] = "valid"},
  heir <- heir

ImplementsKeyBook == KeysBook!Spec

(* What the gateway resolves has no successor, and nobody but the request  *)
(* that holds its row can end it.  (resolve, rotateGatewayApiKey)          *)
ResolvedIsCurrent ==
  \A k \in Keys : Resolves(k) => heir[k] = NoKey
-----------------------------------------------------------------------------
(* Why they hold.                                                          *)

LocksAreHeld ==
  \A c \in Conns, k \in Keys :
    keyLock[k] = c <=> keyPc[c] = "written" /\ keyOp[c].old = k

LockedIsValid == \A k \in Keys : keyLock[k] # Unlocked => row[k] = "valid"

NewIsFresh ==
  \A c \in Conns : keyPc[c] # "idle" /\ keyOp[c].new # NoKey =>
    /\ row[keyOp[c].new] = "none"
    /\ \A d \in Conns : keyPc[d] # "idle" /\ keyOp[d].new = keyOp[c].new => d = c

UnusedHasNoHeir == \A k \in Keys : heir[k] # NoKey => row[k] = "revoked"

(* The inductive invariant.                                                *)
KeysIndInv ==
  /\ KeysTypeOK
  /\ \A c \in Conns : keyPc[c] = "idle" <=> keyOp[c] = NoKeyRequest
  /\ \A c \in Conns : keyOp[c] # NoKeyRequest => keyOp[c].old # NoKey \/ keyOp[c].new # NoKey
  /\ LocksAreHeld /\ LockedIsValid /\ NewIsFresh /\ UnusedHasNoHeir
=============================================================================
