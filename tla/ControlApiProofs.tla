-------------------------- MODULE ControlApiProofs --------------------------
(***************************************************************************)
(* Theorems about Membership, ApiKeys, Connectors and SignIn for every     *)
(* number of requests, organizations, users, codes, keys, OAuth states and *)
(* attempts to sign in.                                                    *)
(***************************************************************************)
EXTENDS Membership, ApiKeys, Connectors, SignIn, FiniteSetTheorems, TLAPS

USE CodesAssumption, KeysAssumption, CallbacksAssumption
-----------------------------------------------------------------------------
(* Members, invitations and pairing codes.                                 *)

\* What the parts of the members' invariant say of one request or code.
MembersKnown ==
  \A r \in Requests : memberPc[r] # "idle" => memberOp[r] \in Ops

\* A request in flight knows what it was asked to do.
LEMMA MemberOpFields ==
  ASSUME MembersKnown, NEW r \in Requests, memberPc[r] # "idle"
  PROVE  /\ memberOp[r] \in Ops
         /\ memberOp[r].org \in Orgs /\ memberOp[r].user \in Users
         /\ memberOp[r].role \in Roles /\ memberOp[r].code \in Codes \cup {NoRequest}
<1>1. memberOp[r] \in Ops
  BY DEF MembersKnown
<1>2. QED
  BY <1>1 DEF Ops

LEMMA MembersInitInv == MembersInit => MembersIndInv
<1> SUFFICES ASSUME MembersInit PROVE MembersIndInv
  OBVIOUS
<1>1. MembersTypeOK
  <2>1. role \in [Orgs -> [Users -> {"owner", "none"}]]
    BY DEF MembersInit
  <2>2. role \in [Orgs -> [Users -> Roles \cup {"none"}]]
    BY <2>1 DEF Roles
  <2>3. QED
    BY <2>2 DEF MembersInit, MembersTypeOK
<1>2. CountIsCurrent /\ CodesAreSpent
  BY DEF MembersInit, CountIsCurrent, CodesAreSpent, Carries
<1>3. CodeAdmitsOne
  BY FS_EmptySet DEF MembersInit, CodeAdmitsOne
<1>4. QED
  BY <1>1, <1>2, <1>3 DEF MembersInit, MembersIndInv

\* A request begins that carries no code: the codes do not notice.
LEMMA StartInv ==
  ASSUME MembersIndInv, NEW r \in Requests, NEW o \in Orgs, NEW u \in Users, NEW ro \in Roles,
         NEW next \in {"count", "upsert"}, Start(r, next, o, u, ro, NoRequest), UNCHANGED code
  PROVE  MembersIndInv'
<1> DEFINE new == [org |-> o, user |-> u, role |-> ro, code |-> NoRequest]
<1>1. new \in Ops
  BY DEF Ops
<1>2. /\ memberPc' = [memberPc EXCEPT ![r] = next] /\ memberOp' = [memberOp EXCEPT ![r] = new]
      /\ role' = role /\ disabled' = disabled /\ joined' = joined /\ code' = code
      /\ othersLeft' = othersLeft /\ outdated' = outdated
  BY DEF Start
<1>3. MembersTypeOK'
  BY <1>1, <1>2 DEF MembersIndInv, MembersTypeOK
<1>4. MembersKnown'
  BY <1>1, <1>2 DEF MembersIndInv, MembersTypeOK, MembersKnown
<1>5. CountIsCurrent'
  BY <1>2 DEF MembersIndInv, MembersTypeOK, CountIsCurrent, ActiveOwners, Owners
<1>6. \A q \in Requests, c \in Codes : Carries(q, c)' => Carries(q, c)
  BY <1>2 DEF MembersIndInv, MembersTypeOK, Carries
<1>7. CodesAreSpent' /\ CodeAdmitsOne'
  BY <1>2, <1>6 DEF MembersIndInv, CodesAreSpent, CodeAdmitsOne
<1>8. QED
  BY <1>3, <1>4, <1>5, <1>7 DEF MembersIndInv, MembersKnown

LEMMA PairInv ==
  ASSUME MembersIndInv, NEW r \in Requests, NEW u \in Users, NEW c \in Codes, Pair(r, u, c)
  PROVE  MembersIndInv'
<1> DEFINE new == [org |-> CodeOrg[c], user |-> u, role |-> "developer", code |-> c]
<1>1. new \in Ops
  BY DEF Ops, Roles
<1>2. /\ memberPc' = [memberPc EXCEPT ![r] = "upsert"] /\ memberOp' = [memberOp EXCEPT ![r] = new]
      /\ role' = role /\ disabled' = disabled /\ joined' = joined
      /\ othersLeft' = othersLeft /\ outdated' = outdated
      /\ code[c] = "active" /\ code' = [code EXCEPT ![c] = "used"]
  BY DEF Pair, Start, CodeUsable
<1>3. MembersTypeOK'
  BY <1>1, <1>2 DEF MembersIndInv, MembersTypeOK
<1>4. MembersKnown'
  BY <1>1, <1>2 DEF MembersIndInv, MembersTypeOK, MembersKnown
<1>5. CountIsCurrent'
  BY <1>2 DEF MembersIndInv, MembersTypeOK, CountIsCurrent, ActiveOwners, Owners
<1>6. joined[c] = {} /\ \A q \in Requests : ~Carries(q, c)
  BY <1>2 DEF MembersIndInv, CodesAreSpent
<1>7. /\ \A q \in Requests : Carries(q, c)' => q = r
      /\ \A q \in Requests, d \in Codes \ {c} : Carries(q, d)' => Carries(q, d)
  BY <1>2, <1>6 DEF MembersIndInv, MembersTypeOK, Carries
<1>8. code'[c] = "used" /\ \A d \in Codes \ {c} : code'[d] = code[d]
  BY <1>2 DEF MembersIndInv, MembersTypeOK
<1>9. CodesAreSpent'
  BY <1>2, <1>6, <1>7, <1>8 DEF MembersIndInv, CodesAreSpent
<1>10. CodeAdmitsOne'
  BY <1>2, <1>8 DEF MembersIndInv, CodeAdmitsOne
<1>11. QED
  BY <1>3, <1>4, <1>5, <1>9, <1>10 DEF MembersIndInv, MembersKnown

LEMMA CountOwnersInv ==
  ASSUME MembersIndInv, NEW r \in Requests, CountOwners(r)
  PROVE  MembersIndInv'
<1>1. MembersTypeOK' /\ MembersKnown'
  BY DEF MembersIndInv, MembersTypeOK, MembersKnown, CountOwners, AnotherOwner
<1>2. CountIsCurrent'
  <2>1. \A o \in Orgs : ActiveOwners(o)' = ActiveOwners(o) /\ Owners(o)' = Owners(o)
    BY DEF CountOwners, ActiveOwners, Owners
  <2>2. memberOp[r].org \in Orgs /\ memberOp' = memberOp
    BY MemberOpFields DEF MembersIndInv, MembersKnown, CountOwners
  <2>3. othersLeft'[r] = (ActiveOwners(memberOp[r].org) \ {memberOp[r].user} # {})
    BY DEF MembersIndInv, MembersTypeOK, CountOwners, AnotherOwner
  <2>4. /\ memberPc'[r] = "check"
        /\ \A q \in Requests \ {r} : /\ memberPc'[q] = memberPc[q] /\ outdated'[q] = outdated[q]
                                    /\ othersLeft'[q] = othersLeft[q]
    BY DEF MembersIndInv, MembersTypeOK, CountOwners
  <2>5. \A q \in Requests : memberPc[q] # "idle" => memberOp[q].org \in Orgs
    BY MemberOpFields DEF MembersIndInv, MembersKnown
  <2>6. QED
    BY <2>1, <2>2, <2>3, <2>4, <2>5 DEF MembersIndInv, CountIsCurrent
<1>3. \A q \in Requests, c \in Codes : Carries(q, c)' => Carries(q, c)
  BY DEF MembersIndInv, MembersTypeOK, Carries, CountOwners
<1>4. CodesAreSpent' /\ CodeAdmitsOne'
  BY <1>3 DEF MembersIndInv, CodesAreSpent, CodeAdmitsOne, CountOwners
<1>5. QED
  BY <1>1, <1>2, <1>4 DEF MembersIndInv, MembersKnown

LEMMA CheckRoleInv ==
  ASSUME MembersIndInv, NEW r \in Requests, CheckRole(r)
  PROVE  MembersIndInv'
<1>1. MembersTypeOK' /\ MembersKnown'
  BY DEF MembersIndInv, MembersTypeOK, MembersKnown, CheckRole
<1>2. CountIsCurrent'
  BY DEF MembersIndInv, MembersTypeOK, CountIsCurrent, CheckRole, ActiveOwners, Owners
<1>3. \A q \in Requests, c \in Codes : Carries(q, c)' => Carries(q, c)
  BY DEF MembersIndInv, MembersTypeOK, Carries, CheckRole
<1>4. CodesAreSpent' /\ CodeAdmitsOne'
  BY <1>3 DEF MembersIndInv, CodesAreSpent, CodeAdmitsOne, CheckRole
<1>5. QED
  BY <1>1, <1>2, <1>4 DEF MembersIndInv, MembersKnown

\* A write of the rows of members makes every count outdated that was read
\* before it, so that nothing is claimed of it.
LEMMA OutdatedCounts ==
  ASSUME MembersIndInv, NEW p,
         \A q \in Requests \ {p} : memberPc'[q] = memberPc[q],
         p \in Requests => memberPc'[p] = "idle",
         \A q \in Requests \ {p} : memberPc[q] \in {"check", "disable"} => outdated'[q]
  PROVE  CountIsCurrent'
<1>1. \A q \in Requests : memberPc'[q] \in {"check", "disable"} => outdated'[q]
  OBVIOUS
<1>2. QED
  BY <1>1 DEF CountIsCurrent

LEMMA CommitDisableInv ==
  ASSUME MembersIndInv, NEW r \in Requests, CommitDisable(r)
  PROVE  MembersIndInv'
<1>0. memberOp[r].user \in Users
  BY MemberOpFields DEF MembersIndInv, MembersKnown, CommitDisable
<1>1. MembersTypeOK' /\ MembersKnown'
  BY <1>0 DEF MembersIndInv, MembersTypeOK, MembersKnown, CommitDisable, Finish, Outdate
<1>2. CountIsCurrent'
  BY OutdatedCounts DEF MembersIndInv, MembersTypeOK, CommitDisable, Finish, Outdate
<1>3. \A q \in Requests, c \in Codes : Carries(q, c)' => Carries(q, c)
  BY DEF MembersIndInv, MembersTypeOK, Carries, CommitDisable, Finish
<1>4. CodesAreSpent' /\ CodeAdmitsOne'
  BY <1>3 DEF MembersIndInv, CodesAreSpent, CodeAdmitsOne, CommitDisable
<1>5. QED
  BY <1>1, <1>2, <1>4 DEF MembersIndInv, MembersKnown

LEMMA CommitUpsertInv ==
  ASSUME MembersIndInv, NEW r \in Requests, CommitUpsert(r)
  PROVE  MembersIndInv'
<1>0. /\ memberOp[r].user \in Users /\ memberOp[r].org \in Orgs /\ memberOp[r].role \in Roles
  BY MemberOpFields DEF MembersIndInv, MembersKnown, CommitUpsert
<1>1. MembersTypeOK' /\ MembersKnown'
  <2>1. /\ joined' \in [Codes -> SUBSET Users] /\ disabled' \in SUBSET Users
        /\ role' \in [Orgs -> [Users -> Roles \cup {"none"}]]
    BY <1>0 DEF MembersIndInv, MembersTypeOK, CommitUpsert
  <2>2. QED
    BY <2>1 DEF MembersIndInv, MembersTypeOK, MembersKnown, CommitUpsert, Finish, Outdate
<1>2. CountIsCurrent'
  BY OutdatedCounts DEF MembersIndInv, MembersTypeOK, CommitUpsert, Finish, Outdate
<1>3. \A q \in Requests, c \in Codes : Carries(q, c)' => Carries(q, c) /\ q # r
  BY DEF MembersIndInv, MembersTypeOK, Carries, CommitUpsert, Finish
<1> DEFINE d == memberOp[r].code
<1>4. ASSUME NEW c \in Codes, c # d
      PROVE  joined'[c] = joined[c]
  BY <1>4 DEF MembersIndInv, MembersTypeOK, CommitUpsert
<1>5. ASSUME d \in Codes
      PROVE  /\ Carries(r, d) /\ code[d] = "used"
             /\ joined'[d] = {memberOp[r].user}
  <2>1. Carries(r, d)
    BY DEF Carries, CommitUpsert
  <2>2. code[d] = "used" /\ joined[d] = {}
    BY <1>5, <2>1 DEF MembersIndInv, CodesAreSpent
  <2>3. QED
    BY <1>5, <2>1, <2>2 DEF MembersIndInv, MembersTypeOK, CommitUpsert
<1>6. code' = code
  BY DEF CommitUpsert
<1>7. CodesAreSpent'
  <2> SUFFICES ASSUME NEW c \in Codes
               PROVE  /\ joined'[c] # {} => code'[c] = "used"
                      /\ \A q \in Requests : Carries(q, c)' =>
                           /\ code'[c] = "used" /\ joined'[c] = {}
                           /\ \A p \in Requests : Carries(p, c)' => p = q
    BY DEF CodesAreSpent
  <2>1. CASE c = d
    <3>1. \A q \in Requests : ~Carries(q, c)'
      BY <1>3, <1>5, <2>1 DEF MembersIndInv, CodesAreSpent
    <3>2. QED
      BY <1>5, <1>6, <2>1, <3>1
  <2>2. CASE c # d
    BY <1>3, <1>4, <1>6, <2>2 DEF MembersIndInv, CodesAreSpent
  <2>3. QED
    BY <2>1, <2>2
<1>8. CodeAdmitsOne'
  <2>1. ASSUME NEW c \in Codes, c = d
        PROVE  Cardinality(joined'[c]) <= 1 /\ code'[c] = "used"
    <3>1. Cardinality(joined'[c]) = 1
      BY <1>5, <2>1, FS_Singleton
    <3>2. QED
      BY <1>5, <1>6, <2>1, <3>1
  <2>2. QED
    BY <1>4, <1>6, <2>1 DEF MembersIndInv, CodeAdmitsOne
<1>9. QED
  BY <1>1, <1>2, <1>7, <1>8 DEF MembersIndInv, MembersKnown

LEMMA GiveUpInv ==
  ASSUME MembersIndInv, NEW r \in Requests, GiveUp(r)
  PROVE  MembersIndInv'
<1>1. MembersTypeOK' /\ MembersKnown'
  BY DEF MembersIndInv, MembersTypeOK, MembersKnown, GiveUp, Finish
<1>2. CountIsCurrent'
  BY DEF MembersIndInv, MembersTypeOK, CountIsCurrent, GiveUp, Finish, ActiveOwners, Owners
<1>3. \A q \in Requests, c \in Codes : Carries(q, c)' => Carries(q, c)
  BY DEF MembersIndInv, MembersTypeOK, Carries, GiveUp, Finish
<1>4. CodesAreSpent' /\ CodeAdmitsOne'
  BY <1>3 DEF MembersIndInv, CodesAreSpent, CodeAdmitsOne, GiveUp
<1>5. QED
  BY <1>1, <1>2, <1>4 DEF MembersIndInv, MembersKnown

\* RemoveMember and EnsureOrganization: one statement that writes one role.
LEMMA WriteRoleInv ==
  ASSUME MembersIndInv, NEW o \in Orgs, NEW u \in Users, NEW ro \in Roles \cup {"none"},
         role' = [role EXCEPT ![o][u] = ro],
         outdated' = [q \in Requests |-> outdated[q] \/ memberPc[q] \in {"check", "disable"}],
         UNCHANGED <<disabled, code, joined, memberPc, memberOp, othersLeft>>
  PROVE  MembersIndInv'
<1>1. MembersTypeOK'
  BY DEF MembersIndInv, MembersTypeOK
<1>2. CountIsCurrent'
  BY DEF CountIsCurrent
<1>3. CodesAreSpent' /\ CodeAdmitsOne'
  BY DEF MembersIndInv, CodesAreSpent, CodeAdmitsOne, Carries
<1>4. QED
  BY <1>1, <1>2, <1>3 DEF MembersIndInv

\* CreatePairingCode and CodeExpires.
LEMMA WriteCodeInv ==
  ASSUME MembersIndInv, NEW c \in Codes, code[c] # "used", NEW st \in {"active", "expired"},
         code' = [code EXCEPT ![c] = st],
         UNCHANGED <<role, disabled, joined, memberPc, memberOp, othersLeft, outdated>>
  PROVE  MembersIndInv'
<1>1. MembersTypeOK'
  BY DEF MembersIndInv, MembersTypeOK
<1>2. CountIsCurrent'
  BY DEF MembersIndInv, CountIsCurrent, ActiveOwners, Owners
<1>3. \A d \in Codes : code[d] = "used" => code'[d] = "used"
  BY DEF MembersIndInv, MembersTypeOK
<1>4. CodesAreSpent' /\ CodeAdmitsOne'
  BY <1>3 DEF MembersIndInv, CodesAreSpent, CodeAdmitsOne, Carries
<1>5. QED
  BY <1>1, <1>2, <1>4 DEF MembersIndInv

LEMMA MembersNextInv == MembersIndInv /\ [MembersNext]_memberVars => MembersIndInv'
<1> SUFFICES ASSUME MembersIndInv, [MembersNext]_memberVars
             PROVE  MembersIndInv'
  OBVIOUS
<1>1. ASSUME NEW r \in Requests, NEW o \in Orgs, NEW u \in Users, NEW ro \in Roles,
             \/ AddMember(r, o, u, ro)
             \/ \E caller \in Users : UpdateRole(r, o, caller, u, ro)
      PROVE  MembersIndInv'
  BY <1>1, StartInv DEF AddMember, UpdateRole
<1>2. ASSUME NEW r \in Requests, NEW o \in Orgs, NEW u \in Users, NEW caller \in Users,
             DeleteMember(r, o, caller, u)
      PROVE  MembersIndInv'
  BY <1>2, StartInv DEF DeleteMember, Roles
<1>3. ASSUME NEW r \in Requests, NEW u \in Users, NEW c \in Codes, Pair(r, u, c)
      PROVE  MembersIndInv'
  BY <1>3, PairInv
<1>4. ASSUME NEW r \in Requests,
             CountOwners(r) \/ CheckRole(r) \/ CommitDisable(r) \/ CommitUpsert(r) \/ GiveUp(r)
      PROVE  MembersIndInv'
  BY <1>4, CountOwnersInv, CheckRoleInv, CommitDisableInv, CommitUpsertInv, GiveUpInv
<1>5. ASSUME NEW o \in Orgs, NEW u \in Users, RemoveMember(o, u) \/ EnsureOrganization(o, u)
      PROVE  MembersIndInv'
  BY <1>5, WriteRoleInv DEF RemoveMember, EnsureOrganization, Roles
<1>6. ASSUME NEW c \in Codes, CreatePairingCode(c) \/ CodeExpires(c)
      PROVE  MembersIndInv'
  BY <1>6, WriteCodeInv DEF CreatePairingCode, CodeExpires
<1>7. CASE UNCHANGED memberVars
  BY <1>7 DEF memberVars, MembersIndInv, MembersTypeOK, CountIsCurrent, ActiveOwners, Owners,
              CodesAreSpent, Carries, CodeAdmitsOne
<1>8. QED
  BY <1>1, <1>2, <1>3, <1>4, <1>5, <1>6, <1>7 DEF MembersNext

\* Every variable of the members and pairing codes keeps its type.
THEOREM MembersTypeCorrect == MembersSpec => []MembersTypeOK
<1>1. MembersIndInv => MembersTypeOK
  BY DEF MembersIndInv
<1>2. QED
  BY <1>1, MembersInitInv, MembersNextInv, PTL DEF MembersSpec

\* A pairing code lets in one user at most, and none after it expired
\* unused, however many devices send it at once. (validatePairingCode)
THEOREM CodesAdmitOne == MembersSpec => []CodeAdmitsOne
<1>1. MembersIndInv => CodeAdmitsOne
  BY DEF MembersIndInv
<1>2. QED
  BY <1>1, MembersInitInv, MembersNextInv, PTL DEF MembersSpec

\* Disabling a member leaves the organization an active owner if nothing was
\* written since the request counted them. (disableOrganizationMember)
THEOREM OwnersOutliveDisable == MembersSpec => OwnerOutlivesDisable
<1> DEFINE Kept == \A r \in Requests, o \in Orgs :
                     /\ CommitDisable(r) /\ memberOp[r].org = o /\ ~outdated[r]
                     /\ ActiveOwners(o) # {}
                     => ActiveOwners(o)' # {}
<1>1. MembersIndInv => Kept
  <2> SUFFICES ASSUME MembersIndInv, NEW r \in Requests, NEW o \in Orgs,
                      CommitDisable(r), memberOp[r].org = o, ~outdated[r], ActiveOwners(o) # {}
               PROVE  ActiveOwners(o)' # {}
    BY DEF Kept
  <2> DEFINE u == memberOp[r].user
  <2>1. ActiveOwners(o)' = ActiveOwners(o) \ {u}
    BY DEF CommitDisable, ActiveOwners, Owners
  <2>2. u \in Owners(o) => ActiveOwners(o) \ {u} # {}
    BY DEF MembersIndInv, CountIsCurrent, CommitDisable
  <2>3. QED
    BY <2>1, <2>2 DEF ActiveOwners
<1>2. QED
  BY <1>1, MembersInitInv, MembersNextInv, PTL DEF MembersSpec, OwnerOutlivesDisable
-----------------------------------------------------------------------------
(* Gateway keys.                                                           *)

\* What the parts of the keys' invariant say of one connection.
KeyPhases ==
  /\ \A c \in Conns : keyPc[c] = "idle" <=> keyOp[c] = NoKeyRequest
  /\ \A c \in Conns : keyOp[c] # NoKeyRequest => keyOp[c].old # NoKey \/ keyOp[c].new # NoKey

\* A request in flight knows what it was asked to do.
LEMMA KeyOpFields ==
  ASSUME KeysIndInv, NEW c \in Conns, keyPc[c] # "idle"
  PROVE  /\ keyOp[c] \in KeyRequests
         /\ keyOp[c].old \in Keys \cup {NoKey} /\ keyOp[c].new \in Keys \cup {NoKey}
         /\ keyOp[c].old # NoKey \/ keyOp[c].new # NoKey
<1>1. keyOp[c] \in KeyRequests
  BY DEF KeysIndInv, KeysTypeOK
<1>2. QED
  BY <1>1 DEF KeysIndInv, KeysTypeOK, KeyRequests

\* A new key is not yet in the table, so it is not the old one.
LEMMA NewIsNotOld ==
  ASSUME KeysIndInv, NEW c \in Conns, keyPc[c] = "written"
  PROVE  /\ keyOp[c].old # NoKey => row[keyOp[c].old] = "valid" /\ heir[keyOp[c].old] = NoKey
         /\ keyOp[c].new # NoKey => row[keyOp[c].new] = "none"
         /\ keyOp[c].new # keyOp[c].old
<1>1. keyOp[c].old \in Keys \cup {NoKey} /\ (keyOp[c].old # NoKey \/ keyOp[c].new # NoKey)
  BY KeyOpFields
<1>2. ASSUME keyOp[c].old # NoKey
      PROVE  row[keyOp[c].old] = "valid" /\ heir[keyOp[c].old] = NoKey
  <2>1. keyOp[c].old \in Keys
    BY <1>1, <1>2
  <2>2. keyLock[keyOp[c].old] = c
    BY <2>1 DEF KeysIndInv, LocksAreHeld
  <2>3. row[keyOp[c].old] = "valid"
    BY <2>1, <2>2 DEF KeysIndInv, LockedIsValid
  <2>4. QED
    BY <2>1, <2>3 DEF KeysIndInv, UnusedHasNoHeir
<1>3. keyOp[c].new # NoKey => row[keyOp[c].new] = "none"
  BY DEF KeysIndInv, NewIsFresh
<1>4. QED
  BY <1>1, <1>2, <1>3

LEMMA KeysInitInv == KeysInit => KeysIndInv
BY DEF KeysInit, KeysIndInv, KeysTypeOK, LocksAreHeld, LockedIsValid, NewIsFresh, UnusedHasNoHeir

LEMMA BeginKeyInv ==
  ASSUME KeysIndInv, NEW c \in Conns, NEW old \in Keys \cup {NoKey}, NEW new \in Keys \cup {NoKey},
         BeginKey(c, old, new)
  PROVE  KeysIndInv'
<1> DEFINE req == [old |-> old, new |-> new]
<1>1. req \in KeyRequests /\ req # NoKeyRequest
  BY DEF KeyRequests
<1>2. /\ keyPc[c] = "idle" /\ keyPc' = [keyPc EXCEPT ![c] = "begun"]
      /\ keyOp' = [keyOp EXCEPT ![c] = req]
      /\ row' = row /\ expired' = expired /\ heir' = heir /\ keyLock' = keyLock
      /\ old # NoKey \/ new # NoKey
  BY DEF BeginKey
<1>3. KeysTypeOK'
  BY <1>1, <1>2 DEF KeysIndInv, KeysTypeOK
<1>4. KeyPhases'
  BY <1>1, <1>2 DEF KeysIndInv, KeysTypeOK, KeyPhases
<1>5. LocksAreHeld' /\ LockedIsValid' /\ UnusedHasNoHeir'
  BY <1>2 DEF KeysIndInv, KeysTypeOK, LocksAreHeld, LockedIsValid, UnusedHasNoHeir
<1>6. NewIsFresh'
  <2>1. new # NoKey => row[new] = "none" /\ \A d \in Conns : keyPc[d] # "idle" => keyOp[d].new # new
    BY DEF BeginKey, Fresh, KeysIndInv
  <2>2. \A d \in Conns \ {c} : keyPc'[d] = keyPc[d] /\ keyOp'[d] = keyOp[d]
    BY <1>2 DEF KeysIndInv, KeysTypeOK
  <2>3. keyOp'[c].new = new
    BY <1>2 DEF KeysIndInv, KeysTypeOK
  <2>4. QED
    BY <1>2, <2>1, <2>2, <2>3 DEF KeysIndInv, NewIsFresh
<1>7. QED
  BY <1>3, <1>4, <1>5, <1>6 DEF KeysIndInv, KeyPhases

LEMMA InsertInv ==
  ASSUME KeysIndInv, NEW c \in Conns, Insert(c)
  PROVE  KeysIndInv'
<1>1. KeysTypeOK' /\ KeyPhases'
  BY DEF KeysIndInv, KeysTypeOK, KeyPhases, Insert
<1>2. LocksAreHeld' /\ LockedIsValid' /\ UnusedHasNoHeir'
  BY DEF KeysIndInv, KeysTypeOK, LocksAreHeld, LockedIsValid, UnusedHasNoHeir, Insert
<1>3. NewIsFresh'
  BY DEF KeysIndInv, KeysTypeOK, NewIsFresh, Insert
<1>4. QED
  BY <1>1, <1>2, <1>3 DEF KeysIndInv, KeyPhases

LEMMA LockRowInv ==
  ASSUME KeysIndInv, NEW c \in Conns, LockRow(c)
  PROVE  KeysIndInv'
<1> DEFINE k == keyOp[c].old
<1>1. /\ keyPc[c] = "begun" /\ keyLock[k] = Unlocked /\ row[k] = "valid"
      /\ keyLock' = [keyLock EXCEPT ![k] = c] /\ keyPc' = [keyPc EXCEPT ![c] = "written"]
      /\ row' = row /\ expired' = expired /\ heir' = heir /\ keyOp' = keyOp
  BY DEF LockRow, Free
<1>2. k \in Keys
  BY KeyOpFields DEF LockRow
<1>3. KeysTypeOK' /\ KeyPhases'
  BY <1>1, <1>2 DEF KeysIndInv, KeysTypeOK, KeyPhases
<1>4. LocksAreHeld'
  <2>1. ASSUME NEW d \in Conns \ {c}, NEW j \in Keys
        PROVE  keyLock'[j] = d <=> keyPc'[d] = "written" /\ keyOp'[d].old = j
    <3>1. keyPc'[d] = keyPc[d] /\ keyOp'[d] = keyOp[d]
      BY <1>1 DEF KeysIndInv, KeysTypeOK
    <3>2. keyLock'[j] = d <=> keyLock[j] = d
      BY <1>1, <1>2 DEF KeysIndInv, KeysTypeOK
    <3>3. QED
      BY <3>1, <3>2 DEF KeysIndInv, LocksAreHeld
  <2>2. ASSUME NEW j \in Keys
        PROVE  keyLock'[j] = c <=> keyPc'[c] = "written" /\ keyOp'[c].old = j
    <3>1. keyLock[j] # c
      BY <1>1 DEF KeysIndInv, LocksAreHeld
    <3>2. keyPc'[c] = "written" /\ keyOp'[c].old = k
      BY <1>1 DEF KeysIndInv, KeysTypeOK
    <3>3. keyLock'[j] = IF j = k THEN c ELSE keyLock[j]
      BY <1>1, <1>2 DEF KeysIndInv, KeysTypeOK
    <3>4. QED
      BY <3>1, <3>2, <3>3
  <2>3. QED
    BY <2>1, <2>2 DEF LocksAreHeld
<1>5. LockedIsValid' /\ UnusedHasNoHeir'
  BY <1>1, <1>2 DEF KeysIndInv, KeysTypeOK, LockedIsValid, UnusedHasNoHeir
<1>6. NewIsFresh'
  BY <1>1 DEF KeysIndInv, KeysTypeOK, NewIsFresh
<1>7. QED
  BY <1>3, <1>4, <1>5, <1>6 DEF KeysIndInv, KeyPhases

\* Whoever ends, ends with the row of its key, if it held it.
LEMMA ReleaseLocks ==
  ASSUME KeysIndInv, NEW c \in Conns, Release(c)
  PROVE  /\ keyLock' \in [Keys -> Conns \cup {Unlocked}]
         /\ keyPc' \in [Conns -> {"idle", "begun", "written"}]
         /\ keyOp' \in [Conns -> KeyRequests \cup {NoKeyRequest}]
         /\ keyPc'[c] = "idle" /\ KeyPhases' /\ LocksAreHeld'
         /\ \A d \in Conns \ {c} : keyPc'[d] = keyPc[d] /\ keyOp'[d] = keyOp[d]
         /\ \A k \in Keys : keyLock'[k] # Unlocked => keyLock'[k] = keyLock[k] /\ keyLock[k] # c
<1>1. /\ keyLock' \in [Keys -> Conns \cup {Unlocked}]
      /\ keyPc' \in [Conns -> {"idle", "begun", "written"}]
      /\ keyOp' \in [Conns -> KeyRequests \cup {NoKeyRequest}]
  BY DEF KeysIndInv, KeysTypeOK, Release
<1>2. /\ keyPc'[c] = "idle" /\ keyOp'[c] = NoKeyRequest
      /\ \A d \in Conns \ {c} : keyPc'[d] = keyPc[d] /\ keyOp'[d] = keyOp[d]
  BY DEF KeysIndInv, KeysTypeOK, Release
<1>3. \A k \in Keys : keyLock'[k] = IF keyLock[k] = c THEN Unlocked ELSE keyLock[k]
  BY DEF Release
<1>4. KeyPhases'
  BY <1>2 DEF KeysIndInv, KeyPhases
<1>5. LocksAreHeld'
  BY <1>2, <1>3 DEF KeysIndInv, LocksAreHeld
<1>6. QED
  BY <1>1, <1>2, <1>3, <1>4, <1>5

LEMMA CommitKeyInv ==
  ASSUME KeysIndInv, NEW c \in Conns, CommitKey(c)
  PROVE  KeysIndInv'
<1> DEFINE old == keyOp[c].old
           new == keyOp[c].new
<1>1. /\ keyPc[c] = "written" /\ expired' = expired /\ Release(c)
      /\ row' = [k \in Keys |-> IF k = old THEN "revoked" ELSE IF k = new THEN "valid" ELSE row[k]]
      /\ heir' = [k \in Keys |-> IF k = old THEN new ELSE heir[k]]
  BY DEF CommitKey
<1>2. /\ old \in Keys \cup {NoKey} /\ new \in Keys \cup {NoKey} /\ old # new
      /\ new # NoKey => row[new] = "none"
      /\ old # NoKey => row[old] = "valid"
  BY <1>1, KeyOpFields, NewIsNotOld
<1>3. KeysTypeOK'
  BY <1>1, <1>2, ReleaseLocks DEF KeysIndInv, KeysTypeOK
<1>4. KeyPhases' /\ LocksAreHeld'
  BY <1>1, ReleaseLocks
<1>5. LockedIsValid'
  <2> SUFFICES ASSUME NEW k \in Keys, keyLock'[k] # Unlocked
               PROVE  row'[k] = "valid"
    BY DEF LockedIsValid
  <2>1. keyLock[k] # Unlocked /\ keyLock[k] # c
    BY <1>1, ReleaseLocks
  <2>2. row[k] = "valid"
    BY <2>1 DEF KeysIndInv, LockedIsValid
  <2>3. k # old
    BY <1>1, <2>1 DEF KeysIndInv, LocksAreHeld
  <2>4. QED
    BY <1>1, <2>2, <2>3
<1>6. NewIsFresh'
  <2> SUFFICES ASSUME NEW d \in Conns, keyPc'[d] # "idle", keyOp'[d].new # NoKey
               PROVE  /\ row'[keyOp'[d].new] = "none"
                      /\ \A e \in Conns :
                           keyPc'[e] # "idle" /\ keyOp'[e].new = keyOp'[d].new => e = d
    BY DEF NewIsFresh
  <2>1. d # c /\ keyPc[d] # "idle" /\ keyOp'[d] = keyOp[d]
    BY <1>1, ReleaseLocks
  <2>2. keyOp[d].new \in Keys
    BY <2>1, KeyOpFields
  <2>3. row[keyOp[d].new] = "none" /\ keyOp[d].new # new
    BY <1>1, <2>1 DEF KeysIndInv, NewIsFresh
  <2>4. keyOp[d].new # old
    BY <1>2, <2>2, <2>3
  <2>5. row'[keyOp'[d].new] = "none"
    BY <1>1, <2>1, <2>2, <2>3, <2>4
  <2>6. \A e \in Conns : keyPc'[e] # "idle" => keyPc[e] # "idle" /\ keyOp'[e] = keyOp[e]
    BY <1>1, ReleaseLocks
  <2>7. QED
    BY <2>1, <2>5, <2>6 DEF KeysIndInv, NewIsFresh
<1>7. UnusedHasNoHeir'
  BY <1>1, <1>2 DEF KeysIndInv, UnusedHasNoHeir
<1>8. QED
  BY <1>3, <1>4, <1>5, <1>6, <1>7 DEF KeysIndInv, KeyPhases

LEMMA FailKeyInv ==
  ASSUME KeysIndInv, NEW c \in Conns, FailKey(c)
  PROVE  KeysIndInv'
<1>1. row' = row /\ expired' = expired /\ heir' = heir /\ Release(c)
  BY DEF FailKey
<1>2. KeysTypeOK' /\ KeyPhases' /\ LocksAreHeld'
  BY <1>1, ReleaseLocks DEF KeysIndInv, KeysTypeOK
<1>3. LockedIsValid' /\ UnusedHasNoHeir'
  BY <1>1, ReleaseLocks DEF KeysIndInv, LockedIsValid, UnusedHasNoHeir
<1>4. NewIsFresh'
  <2>1. \A d \in Conns : keyPc'[d] # "idle" => keyPc[d] # "idle" /\ keyOp'[d] = keyOp[d]
    BY <1>1, ReleaseLocks
  <2>2. QED
    BY <1>1, <2>1 DEF KeysIndInv, NewIsFresh
<1>5. QED
  BY <1>2, <1>3, <1>4 DEF KeysIndInv, KeyPhases

LEMMA KeysNextInv == KeysIndInv /\ [KeysNext]_keyVars => KeysIndInv'
<1> SUFFICES ASSUME KeysIndInv, [KeysNext]_keyVars
             PROVE  KeysIndInv'
  OBVIOUS
<1>1. ASSUME NEW c \in Conns, NEW old \in Keys \cup {NoKey}, NEW new \in Keys \cup {NoKey},
             BeginKey(c, old, new)
      PROVE  KeysIndInv'
  BY <1>1, BeginKeyInv
<1>2. ASSUME NEW c \in Conns, Insert(c) \/ LockRow(c) \/ CommitKey(c) \/ FailKey(c)
      PROVE  KeysIndInv'
  BY <1>2, InsertInv, LockRowInv, CommitKeyInv, FailKeyInv
<1>3. ASSUME NEW k \in Keys, KeyExpires(k)
      PROVE  KeysIndInv'
  BY <1>3 DEF KeyExpires, KeysIndInv, KeysTypeOK, LocksAreHeld, LockedIsValid, NewIsFresh,
              UnusedHasNoHeir
<1>4. CASE UNCHANGED keyVars
  BY <1>4 DEF keyVars, KeysIndInv, KeysTypeOK, LocksAreHeld, LockedIsValid, NewIsFresh,
              UnusedHasNoHeir
<1>5. QED
  BY <1>1, <1>2, <1>3, <1>4 DEF KeysNext

\* Every variable of the gateway keys keeps its type.
THEOREM KeysTypeCorrect == KeysSpec => []KeysTypeOK
<1>1. KeysIndInv => KeysTypeOK
  BY DEF KeysIndInv
<1>2. QED
  BY <1>1, KeysInitInv, KeysNextInv, PTL DEF KeysSpec

\* What the gateway resolves was not replaced by another key. (resolve,
\* rotateGatewayApiKey)
THEOREM ResolvedKeysAreCurrent == KeysSpec => []ResolvedIsCurrent
<1>1. KeysIndInv => ResolvedIsCurrent
  BY DEF KeysIndInv, UnusedHasNoHeir, ResolvedIsCurrent, Resolves
<1>2. QED
  BY <1>1, KeysInitInv, KeysNextInv, PTL DEF KeysSpec

LEMMA KeysInitRefines == KeysInit => KeysBook!Init
BY DEF KeysInit, KeysBook!Init

\* A COMMIT issues the new key, revokes the old one or replaces it.
LEMMA CommitKeyRefines ==
  ASSUME KeysIndInv, NEW c \in Conns, CommitKey(c)
  PROVE  KeysBook!Next
<1> SUFFICES ASSUME NEW old, old = keyOp[c].old, NEW new, new = keyOp[c].new
             PROVE  KeysBook!Next
  OBVIOUS
<1> DEFINE issued == {k \in Keys : row[k] # "none"}
           valid == {k \in Keys : row[k] = "valid"}
<1>1. /\ row' = [k \in Keys |-> IF k = old THEN "revoked" ELSE IF k = new THEN "valid" ELSE row[k]]
      /\ heir' = [k \in Keys |-> IF k = old THEN new ELSE heir[k]]
  BY DEF CommitKey
<1>2. /\ old \in Keys \cup {NoKey} /\ new \in Keys \cup {NoKey} /\ old # new
      /\ new # NoKey => row[new] = "none"
      /\ old # NoKey => row[old] = "valid" /\ heir[old] = NoKey
      /\ heir = [k \in Keys |-> heir[k]]
  BY KeyOpFields, NewIsNotOld DEF CommitKey, KeysIndInv, KeysTypeOK
<1>3. CASE old = NoKey
  <2>1. new \in Keys \ issued
    BY <1>2, <1>3
  <2>2. issued' = issued \cup {new} /\ valid' = valid \cup {new}
    BY <1>1, <1>2, <1>3
  <2>3. heir' = heir
    BY <1>1, <1>2, <1>3
  <2>4. KeysBook!Issue(new)
    BY <2>1, <2>2, <2>3 DEF KeysBook!Issue
  <2>5. QED
    BY <2>1, <2>4 DEF KeysBook!Next
<1>4. CASE old # NoKey /\ new = NoKey
  <2>1. old \in valid /\ old \in Keys
    BY <1>2, <1>4
  <2>2. issued' = issued /\ valid' = valid \ {old}
    BY <1>1, <1>2, <1>4
  <2>3. heir' = heir
    BY <1>1, <1>2, <1>4
  <2>4. KeysBook!Revoke(old)
    BY <2>1, <2>2, <2>3 DEF KeysBook!Revoke
  <2>5. QED
    BY <2>1, <2>4 DEF KeysBook!Next
<1>5. CASE old # NoKey /\ new # NoKey
  <2>1. old \in valid /\ old \in Keys /\ new \in Keys \ issued
    BY <1>2, <1>5
  <2>2. issued' = issued \cup {new} /\ valid' = (valid \ {old}) \cup {new}
    BY <1>1, <1>2, <1>5
  <2>3. heir' = [heir EXCEPT ![old] = new]
    BY <1>1, <1>2, <2>1
  <2>4. KeysBook!Replace(old, new)
    BY <2>1, <2>2, <2>3 DEF KeysBook!Replace
  <2>5. QED
    BY <2>1, <2>4 DEF KeysBook!Next
<1>6. QED
  BY <1>3, <1>4, <1>5

LEMMA KeysNextRefines == KeysIndInv /\ [KeysNext]_keyVars => [KeysBook!Next]_(KeysBook!vars)
<1> SUFFICES ASSUME KeysIndInv, [KeysNext]_keyVars
             PROVE  [KeysBook!Next]_(KeysBook!vars)
  OBVIOUS
<1>1. ASSUME NEW c \in Conns, CommitKey(c)
      PROVE  KeysBook!Next
  BY <1>1, CommitKeyRefines
<1>2. CASE UNCHANGED <<row, heir>>
  BY <1>2 DEF KeysBook!vars
<1>3. QED
  BY <1>1, <1>2 DEF KeysNext, keyVars, BeginKey, Insert, LockRow, FailKey, KeyExpires

\* Creating, rotating and revoking keys at the same time is as if each
\* happened at one instant: what is revoked or replaced stays so, and a key
\* has one successor. (createGatewayApiKey, rotateGatewayApiKey,
\* revokeGatewayApiKey)
THEOREM KeysRefineBook == KeysSpec => ImplementsKeyBook
<1>1. QED
  BY KeysInitInv, KeysNextInv, KeysInitRefines, KeysNextRefines, PTL
     DEF KeysSpec, ImplementsKeyBook, KeysBook!Spec
-----------------------------------------------------------------------------
(* Connectors.                                                             *)

\* A request in flight knows the state it was called with.
CallbacksKnown == \A r \in Callbacks : linkPc[r] # "idle" => linkOp[r] \in States

LEMMA LinksInitInv == LinksInit => LinksIndInv
<1> SUFFICES ASSUME LinksInit PROVE LinksIndInv
  OBVIOUS
<1>1. LinksTypeOK
  BY DEF LinksInit, LinksTypeOK
<1>2. LockedIsOpen
  BY DEF LinksInit, LockedIsOpen
<1>3. StateConnectsOnce
  <2>1. \A s \in States : {c \in connections : c.state = s} = {} /\ state[s] = "none"
    BY DEF LinksInit, connections
  <2>2. Cardinality({}) <= 1
    BY FS_EmptySet
  <2>3. QED
    BY <2>1, <2>2, Zenon DEF StateConnectsOnce
<1>4. QED
  BY <1>1, <1>2, <1>3 DEF LinksInit, LinksIndInv

\* What a state has become stays so as long as neither it nor the connections
\* change.
LEMMA ConnectionsAreKept ==
  ASSUME StateConnectsOnce, connections' = connections,
         \A s \in States : state'[s] = "consumed" <=> state[s] = "consumed"
  PROVE  StateConnectsOnce'
BY DEF StateConnectsOnce

LEMMA StartOAuthInv ==
  ASSUME LinksIndInv, NEW s \in States, StartOAuth(s)
  PROVE  LinksIndInv'
<1>1. LinksTypeOK' /\ CallbacksKnown'
  BY DEF LinksIndInv, LinksTypeOK, CallbacksKnown, StartOAuth
<1>2. LockedIsOpen'
  BY DEF LinksIndInv, LinksTypeOK, LockedIsOpen, StartOAuth
<1>3. StateConnectsOnce'
  BY ConnectionsAreKept DEF LinksIndInv, LinksTypeOK, connections, StartOAuth
<1>4. QED
  BY <1>1, <1>2, <1>3 DEF LinksIndInv, CallbacksKnown

LEMMA BeginCallbackInv ==
  ASSUME LinksIndInv, NEW r \in Callbacks, NEW s \in States, BeginCallback(r, s)
  PROVE  LinksIndInv'
<1>1. LinksTypeOK' /\ CallbacksKnown'
  BY DEF LinksIndInv, LinksTypeOK, CallbacksKnown, BeginCallback
<1>2. LockedIsOpen'
  BY DEF LinksIndInv, LinksTypeOK, LockedIsOpen, BeginCallback
<1>3. StateConnectsOnce'
  BY ConnectionsAreKept DEF LinksIndInv, connections, BeginCallback
<1>4. QED
  BY <1>1, <1>2, <1>3 DEF LinksIndInv, CallbacksKnown

LEMMA LockStateInv ==
  ASSUME LinksIndInv, NEW r \in Callbacks, LockState(r)
  PROVE  LinksIndInv'
<1>0. linkOp[r] \in States
  BY DEF LinksIndInv, LockState
<1>1. LinksTypeOK' /\ CallbacksKnown'
  BY <1>0 DEF LinksIndInv, LinksTypeOK, CallbacksKnown, LockState
<1>2. LockedIsOpen'
  <2>1. ASSUME NEW q \in Callbacks \ {r}, linkPc'[q] = "locked"
        PROVE  /\ linkOp'[q] \in States /\ stateLock'[linkOp'[q]] = q
               /\ state'[linkOp'[q]] = "open" /\ inTime'[q]
    <3>1. linkPc[q] = "locked" /\ linkOp'[q] = linkOp[q] /\ inTime'[q] = inTime[q]
      BY <2>1 DEF LinksIndInv, LinksTypeOK, LockState
    <3>2. /\ linkOp[q] \in States /\ stateLock[linkOp[q]] = q
          /\ state[linkOp[q]] = "open" /\ inTime[q]
      BY <3>1 DEF LinksIndInv, LockedIsOpen
    <3>3. QED
      BY <1>0, <3>1, <3>2 DEF LinksIndInv, LinksTypeOK, LockState
  <2>2. /\ linkOp'[r] \in States /\ stateLock'[linkOp'[r]] = r
        /\ state'[linkOp'[r]] = "open" /\ inTime'[r]
    BY <1>0 DEF LinksIndInv, LinksTypeOK, LockState, StateUsable
  <2>3. QED
    BY <2>1, <2>2 DEF LockedIsOpen
<1>3. StateConnectsOnce'
  BY ConnectionsAreKept DEF LinksIndInv, connections, LockState
<1>4. QED
  BY <1>1, <1>2, <1>3 DEF LinksIndInv, CallbacksKnown

\* The others keep the rows they hold.
LEMMA OthersStayLocked ==
  ASSUME LinksIndInv, NEW r \in Callbacks, EndCallback(r),
         \A s \in States : stateLock[s] # r => state'[s] = state[s]
  PROVE  LockedIsOpen'
<1> SUFFICES ASSUME NEW q \in Callbacks, linkPc'[q] = "locked"
             PROVE  /\ linkOp'[q] \in States /\ stateLock'[linkOp'[q]] = q
                    /\ state'[linkOp'[q]] = "open" /\ inTime'[q]
  BY DEF LockedIsOpen
<1>1. q # r /\ linkPc[q] = "locked" /\ linkOp'[q] = linkOp[q]
  BY DEF LinksIndInv, LinksTypeOK, EndCallback
<1>2. /\ linkOp[q] \in States /\ stateLock[linkOp[q]] = q
      /\ state[linkOp[q]] = "open" /\ inTime[q]
  BY <1>1 DEF LinksIndInv, LockedIsOpen
<1>3. inTime'[q] = inTime[q]
  BY <1>1 DEF LinksIndInv, LinksTypeOK, EndCallback
<1>4. QED
  BY <1>1, <1>2, <1>3 DEF EndCallback

LEMMA CompleteInv ==
  ASSUME LinksIndInv, NEW r \in Callbacks, Complete(r)
  PROVE  LinksIndInv'
<1> DEFINE s == linkOp[r]
           c == [by |-> r, state |-> s]
<1>1. s \in States /\ stateLock[s] = r /\ state[s] = "open"
  BY DEF LinksIndInv, LockedIsOpen, Complete
<1>2. c \in Connections /\ c.state = s
  BY <1>1 DEF Connections
<1>3. state' = [state EXCEPT ![s] = "consumed"] /\ connections' = connections \cup {c}
  BY DEF Complete, connections
<1>4. LinksTypeOK' /\ CallbacksKnown'
  BY <1>1, <1>2 DEF LinksIndInv, LinksTypeOK, CallbacksKnown, Complete, EndCallback
<1>5. LockedIsOpen'
  <2>1. \A x \in States : stateLock[x] # r => state'[x] = state[x]
    BY <1>1, <1>3 DEF LinksIndInv, LinksTypeOK
  <2>2. QED
    BY <2>1, OthersStayLocked DEF Complete
<1>6. StateConnectsOnce'
  <2>1. {x \in connections : x.state = s} = {}
    BY <1>1 DEF LinksIndInv, StateConnectsOnce
  <2>2. {x \in connections' : x.state = s} = {c}
    BY <1>2, <1>3, <2>1
  <2>3. \A y \in States \ {s} :
          {x \in connections' : x.state = y} = {x \in connections : x.state = y}
    BY <1>2, <1>3
  <2>4. state'[s] = "consumed" /\ \A y \in States \ {s} : state'[y] = state[y]
    BY <1>1, <1>3 DEF LinksIndInv, LinksTypeOK
  <2>5. \A x : Cardinality({x}) <= 1
    <3>1. 1 <= 1
      OBVIOUS
    <3>2. QED
      BY <3>1, FS_Singleton, Zenon
  <2>6. Cardinality({x \in connections' : x.state = s}) <= 1
    BY <2>2, <2>5, Zenon
  <2>7. QED
    BY <2>2, <2>3, <2>4, <2>6 DEF LinksIndInv, StateConnectsOnce
<1>7. QED
  BY <1>4, <1>5, <1>6 DEF LinksIndInv, CallbacksKnown

LEMMA FailCallbackInv ==
  ASSUME LinksIndInv, NEW r \in Callbacks, FailCallback(r)
  PROVE  LinksIndInv'
<1>1. LinksTypeOK' /\ CallbacksKnown'
  BY DEF LinksIndInv, LinksTypeOK, CallbacksKnown, FailCallback, EndCallback
<1>2. LockedIsOpen'
  BY OthersStayLocked DEF FailCallback
<1>3. StateConnectsOnce'
  BY ConnectionsAreKept DEF LinksIndInv, connections, FailCallback
<1>4. QED
  BY <1>1, <1>2, <1>3 DEF LinksIndInv, CallbacksKnown

\* A connection that is revoked is still the one its state became.
LEMMA RevokeInv ==
  ASSUME LinksIndInv, NEW c \in active, Revoke(c)
  PROVE  LinksIndInv'
<1>1. LinksTypeOK' /\ CallbacksKnown'
  BY DEF LinksIndInv, LinksTypeOK, CallbacksKnown, Revoke
<1>2. LockedIsOpen'
  BY DEF LinksIndInv, LockedIsOpen, Revoke
<1>3. connections' = connections
  BY DEF connections, Revoke
<1>4. StateConnectsOnce'
  BY <1>3, ConnectionsAreKept DEF LinksIndInv, Revoke
<1>5. QED
  BY <1>1, <1>2, <1>4 DEF LinksIndInv, CallbacksKnown

LEMMA LinksNextInv == LinksIndInv /\ [LinksNext]_linkVars => LinksIndInv'
<1> SUFFICES ASSUME LinksIndInv, [LinksNext]_linkVars
             PROVE  LinksIndInv'
  OBVIOUS
<1>1. ASSUME NEW s \in States, StartOAuth(s)
      PROVE  LinksIndInv'
  BY <1>1, StartOAuthInv
<1>2. ASSUME NEW s \in States, StateExpires(s)
      PROVE  LinksIndInv'
  <2>1. LinksTypeOK' /\ CallbacksKnown' /\ LockedIsOpen'
    BY <1>2 DEF StateExpires, LinksIndInv, LinksTypeOK, CallbacksKnown, LockedIsOpen
  <2>2. StateConnectsOnce'
    BY <1>2, ConnectionsAreKept DEF StateExpires, LinksIndInv, connections
  <2>3. QED
    BY <2>1, <2>2 DEF LinksIndInv, CallbacksKnown
<1>3. ASSUME NEW s \in States, NEW r \in Callbacks, BeginCallback(r, s)
      PROVE  LinksIndInv'
  BY <1>3, BeginCallbackInv
<1>4. ASSUME NEW r \in Callbacks, LockState(r) \/ Complete(r) \/ FailCallback(r)
      PROVE  LinksIndInv'
  BY <1>4, LockStateInv, CompleteInv, FailCallbackInv
<1>5. ASSUME NEW c \in active, Revoke(c)
      PROVE  LinksIndInv'
  BY <1>5, RevokeInv
<1>6. CASE UNCHANGED linkVars
  BY <1>6 DEF linkVars, LinksIndInv, LinksTypeOK, LockedIsOpen, StateConnectsOnce, connections
<1>7. QED
  BY <1>1, <1>2, <1>3, <1>4, <1>5, <1>6 DEF LinksNext

\* Every variable of the connectors keeps its type.
THEOREM LinksTypeCorrect == LinksSpec => []LinksTypeOK
<1>1. LinksIndInv => LinksTypeOK
  BY DEF LinksIndInv
<1>2. QED
  BY <1>1, LinksInitInv, LinksNextInv, PTL DEF LinksSpec

\* However often and at how many places an OAuth state comes back, before and
\* after its connection was revoked, it becomes one connection.
\* (completeConnectorOAuth, revokeConnectorConnection)
THEOREM StatesConnectOnce == LinksSpec => []StateConnectsOnce
<1>1. LinksIndInv => StateConnectsOnce
  BY DEF LinksIndInv
<1>2. QED
  BY <1>1, LinksInitInv, LinksNextInv, PTL DEF LinksSpec
\* A callback that is under way and came in time.
Due(c) == linkPc[c.by] # "idle" /\ linkOp[c.by] = c.state /\ inTime[c.by]

\* A step about a connection is one of the book.
LEMMA IsOfBook ==
  ASSUME NEW c \in Connections,
         \/ LinksBook!ComeBack(c) \/ LinksBook!Connect(c)
         \/ LinksBook!GiveUp(c) \/ LinksBook!Revoke(c)
  PROVE  LinksBook!Next
BY DEF LinksBook!Next, Connections

\* When a request ends it is no longer due, and the others are as they were.
LEMMA EndOfDue ==
  ASSUME LinksIndInv, NEW r \in Callbacks, EndCallback(r), NEW c \in Connections
  PROVE  Due(c)' <=> Due(c) /\ c.by # r
<1>1. c.by \in Callbacks
  BY DEF Connections
<1>2. CASE c.by = r
  BY <1>1, <1>2 DEF EndCallback, Due, LinksIndInv, LinksTypeOK
<1>3. CASE c.by # r
  BY <1>1, <1>3 DEF EndCallback, Due, LinksIndInv, LinksTypeOK
<1>4. QED
  BY <1>2, <1>3

\* A callback that comes in time becomes due; any other is none of the book's.
LEMMA BeginCallbackRefines ==
  ASSUME LinksIndInv, NEW r \in Callbacks, NEW s \in States, BeginCallback(r, s)
  PROVE  [LinksBook!Next]_(LinksBook!vars)
<1> DEFINE c == [by |-> r, state |-> s]
<1>1. c \in Connections /\ c.by = r /\ c.state = s
  BY DEF Connections
<1>2. \A d \in Connections : d.by = r /\ d.state = s => d = c
  BY DEF Connections
<1>3. ASSUME NEW d \in Connections
      PROVE  Due(d)' <=> Due(d) \/ (d = c /\ s \notin overdue)
  <2>1. d.by \in Callbacks
    BY DEF Connections
  <2>2. CASE d.by = r
    BY <1>1, <1>2, <2>1, <2>2 DEF BeginCallback, Due, LinksIndInv, LinksTypeOK
  <2>3. CASE d.by # r
    BY <1>1, <2>1, <2>3 DEF BeginCallback, Due, LinksIndInv, LinksTypeOK
  <2>4. QED
    BY <2>2, <2>3
<1>4. UNCHANGED <<state, overdue, active, links>>
  BY DEF BeginCallback
<1>5. CASE s \in overdue
  <2>1. {d \in Connections : Due(d)'} = {d \in Connections : Due(d)}
    BY <1>3, <1>5
  <2>2. QED
    BY <1>4, <2>1 DEF LinksBook!vars, Due
<1>6. CASE s \notin overdue
  <2>1. {d \in Connections : Due(d)'} = {d \in Connections : Due(d)} \cup {c}
    BY <1>1, <1>3, <1>6
  <2>2. LinksBook!ComeBack(c)
    BY <1>1, <1>4, <1>6, <2>1 DEF LinksBook!ComeBack, Due
  <2>3. QED
    BY <1>1, <2>2, IsOfBook
<1>7. QED
  BY <1>5, <1>6

\* The COMMIT is the instant at which the state becomes a connection: its row
\* was locked, so it is still unused.
LEMMA CompleteRefines ==
  ASSUME LinksIndInv, NEW r \in Callbacks, Complete(r)
  PROVE  LinksBook!Next
<1> SUFFICES ASSUME NEW s, s = linkOp[r]
             PROVE  LinksBook!Next
  OBVIOUS
<1> DEFINE c == [by |-> r, state |-> s]
<1>1. s \in States /\ state[s] = "open" /\ inTime[r] /\ linkPc[r] = "locked"
  BY DEF LinksIndInv, LockedIsOpen, Complete
<1>2. c \in Connections /\ c.by = r /\ c.state = s
  BY <1>1 DEF Connections
<1>3. Due(c) /\ \A d \in Connections : Due(d) /\ d.by = r => d = c
  BY <1>1, <1>2 DEF Due, Connections
<1>4. {d \in Connections : Due(d)'} = {d \in Connections : Due(d)} \ {c}
  BY <1>2, <1>3, EndOfDue DEF Complete
<1>5. /\ state' = [state EXCEPT ![s] = "consumed"]
      /\ state \in [States -> {"none", "open", "consumed"}]
      /\ active' = active \cup {c} /\ links' = links \cup {<<"connected", c>>}
      /\ overdue' = overdue
  BY DEF Complete, LinksIndInv, LinksTypeOK
<1>6. /\ {x \in States : state'[x] # "none"} = {x \in States : state[x] # "none"}
      /\ {x \in States : state'[x] = "open"} = {x \in States : state[x] = "open"} \ {s}
  BY <1>1, <1>5
<1>7. LinksBook!Connect(c)
  BY <1>1, <1>2, <1>3, <1>4, <1>5, <1>6 DEF LinksBook!Connect, Due
<1>8. QED
  BY <1>2, <1>7, IsOfBook

\* A rollback is that of a callback that was due, or of none the book knows.
LEMMA FailCallbackRefines ==
  ASSUME LinksIndInv, NEW r \in Callbacks, FailCallback(r)
  PROVE  [LinksBook!Next]_(LinksBook!vars)
<1> SUFFICES ASSUME NEW s, s = linkOp[r]
             PROVE  [LinksBook!Next]_(LinksBook!vars)
  OBVIOUS
<1> DEFINE c == [by |-> r, state |-> s]
<1>1. UNCHANGED <<state, overdue, active, links>>
  BY DEF FailCallback
<1>2. c \in Connections /\ c.by = r /\ c.state = s
  BY DEF FailCallback, LinksIndInv, Connections
<1>3. \A d \in Connections : Due(d) /\ d.by = r => d = c
  BY DEF Due, Connections
<1>4. CASE Due(c)
  <2>1. {d \in Connections : Due(d)'} = {d \in Connections : Due(d)} \ {c}
    BY <1>2, <1>3, EndOfDue DEF FailCallback
  <2>2. LinksBook!GiveUp(c)
    BY <1>1, <1>2, <1>4, <2>1 DEF LinksBook!GiveUp, Due
  <2>3. QED
    BY <1>2, <2>2, IsOfBook
<1>5. CASE ~Due(c)
  <2>1. {d \in Connections : Due(d)'} = {d \in Connections : Due(d)}
    BY <1>3, <1>5, EndOfDue DEF FailCallback
  <2>2. QED
    BY <1>1, <2>1 DEF LinksBook!vars, Due
<1>6. QED
  BY <1>4, <1>5

LEMMA LinksNextRefines ==
  ASSUME LinksIndInv, [LinksNext]_linkVars
  PROVE  [LinksBook!Next]_(LinksBook!vars)
<1>1. CASE UNCHANGED <<state, overdue, active, links, linkPc, linkOp, inTime>>
  BY <1>1 DEF LinksBook!vars
<1>2. ASSUME NEW s \in States, StartOAuth(s)
      PROVE  LinksBook!Next
  <2>1. /\ state[s] = "none" /\ state' = [state EXCEPT ![s] = "open"]
        /\ state \in [States -> {"none", "open", "consumed"}]
        /\ UNCHANGED <<overdue, active, links, linkPc, linkOp, inTime>>
    BY <1>2 DEF StartOAuth, LinksIndInv, LinksTypeOK
  <2>2. /\ {x \in States : state'[x] # "none"} = {x \in States : state[x] # "none"} \cup {s}
        /\ {x \in States : state'[x] = "open"} = {x \in States : state[x] = "open"} \cup {s}
    BY <2>1
  <2>3. LinksBook!Issue(s)
    BY <2>1, <2>2 DEF LinksBook!Issue
  <2>4. QED
    BY <2>3 DEF LinksBook!Next
<1>3. ASSUME NEW s \in States, StateExpires(s)
      PROVE  LinksBook!Next
  BY <1>3 DEF StateExpires, LinksBook!Next, LinksBook!Expire
<1>4. ASSUME NEW c \in active, Revoke(c)
      PROVE  LinksBook!Next
  <2>1. c \in Connections
    BY DEF LinksIndInv, LinksTypeOK
  <2>2. LinksBook!Revoke(c)
    BY <1>4 DEF Revoke, LinksBook!Revoke
  <2>3. QED
    BY <2>1, <2>2, IsOfBook
<1>5. ASSUME NEW r \in Callbacks, LockState(r)
      PROVE  UNCHANGED LinksBook!vars
  <2>1. /\ UNCHANGED <<state, overdue, active, links, linkOp, inTime>>
        /\ linkPc[r] = "begun" /\ linkPc' = [linkPc EXCEPT ![r] = "locked"]
        /\ linkPc \in [Callbacks -> {"idle", "begun", "locked"}]
    BY <1>5 DEF LockState, LinksIndInv, LinksTypeOK
  <2>2. \A q \in Callbacks : linkPc'[q] # "idle" <=> linkPc[q] # "idle"
    BY <2>1
  <2>3. {d \in Connections : Due(d)'} = {d \in Connections : Due(d)}
    BY <2>1, <2>2 DEF Due, Connections
  <2>4. QED
    BY <2>1, <2>3 DEF LinksBook!vars, Due
<1>6. CASE UNCHANGED linkVars
  BY <1>1, <1>6 DEF linkVars
<1>7. ASSUME NEW s \in States, NEW r \in Callbacks, BeginCallback(r, s)
      PROVE  [LinksBook!Next]_(LinksBook!vars)
  BY <1>7, BeginCallbackRefines
<1>8. ASSUME NEW r \in Callbacks, Complete(r) \/ FailCallback(r)
      PROVE  [LinksBook!Next]_(LinksBook!vars)
  BY <1>8, CompleteRefines, FailCallbackRefines
<1>9. QED
  BY <1>2, <1>3, <1>4, <1>5, <1>6, <1>7, <1>8 DEF LinksNext

\* Connecting a provider and revoking it, in transactions of several
\* statements and however often a state comes back, is as if each happened at
\* one instant. (startConnectorOAuth, completeConnectorOAuth,
\* revokeConnectorConnection)
THEOREM LinksRefineBook == LinksSpec => ImplementsConnectionBook
<1>1. LinksInit => LinksBook!Init
  BY DEF LinksInit, LinksBook!Init, Connections
<1>2. QED
  BY <1>1, LinksInitInv, LinksNextInv, LinksNextRefines, PTL
  DEF LinksSpec, ImplementsConnectionBook, LinksBook!Spec
-----------------------------------------------------------------------------
(* Single sign-on.                                                         *)

\* A poll goes from one way to another, is lost, or comes from the timer.
LEMMA PollMoves ==
  ASSUME MaxOpen \in Nat, polls \in [Attempts -> [Ways -> 0 .. MaxOpen]], PollsAreBounded,
         NEW a \in Attempts, NEW from \in Ways, NEW to \in Ways, from # to, Move(a, from, to)
  PROVE  polls' \in [Attempts -> [Ways -> 0 .. MaxOpen]] /\ PollsAreBounded'
<1>1. \A w \in Ways : polls[a][w] \in Nat
  OBVIOUS
<1>2. Open(a) <= MaxOpen /\ Open(a) = polls[a]["sent"] + polls[a]["pending"] + polls[a]["completed"]
  BY DEF PollsAreBounded, Open
<1>3. /\ polls[a][from] > 0
      /\ polls' = [polls EXCEPT ![a] = [polls[a] EXCEPT ![from] = @ - 1, ![to] = @ + 1]]
  BY DEF Move
<1>4. /\ polls'[a] = [polls[a] EXCEPT ![from] = @ - 1, ![to] = @ + 1]
      /\ \A b \in Attempts : b # a => polls'[b] = polls[b]
  BY <1>3
<1>5. /\ polls'[a][from] = polls[a][from] - 1 /\ polls'[a][to] = polls[a][to] + 1
      /\ \A w \in Ways : w # from /\ w # to => polls'[a][w] = polls[a][w]
  BY <1>4
<1>6. Open(a)' = Open(a)
  BY <1>1, <1>2, <1>5 DEF Open, Ways
<1>7. polls[a][from] + polls[a][to] <= MaxOpen
  BY <1>1, <1>2 DEF Ways
<1>8. polls'[a] \in [Ways -> 0 .. MaxOpen]
  <2>1. polls[a][from] - 1 \in 0 .. MaxOpen /\ polls[a][to] + 1 \in 0 .. MaxOpen
    BY <1>1, <1>3, <1>7
  <2>2. QED
    BY <1>4, <2>1
<1>9. polls' \in [Attempts -> [Ways -> 0 .. MaxOpen]]
  BY <1>3, <1>4, <1>8
<1>10. PollsAreBounded'
  <2>1. \A b \in Attempts : b # a => Open(b)' = Open(b)
    BY <1>4 DEF Open
  <2>2. QED
    BY <1>2, <1>6, <2>1 DEF PollsAreBounded
<1>11. QED
  BY <1>9, <1>10

LEMMA PollLeaves ==
  ASSUME MaxOpen \in Nat, polls \in [Attempts -> [Ways -> 0 .. MaxOpen]], PollsAreBounded,
         NEW a \in Attempts, NEW w \in Ways, polls[a][w] > 0,
         polls' = [polls EXCEPT ![a][w] = @ - 1]
  PROVE  polls' \in [Attempts -> [Ways -> 0 .. MaxOpen]] /\ PollsAreBounded'
<1>1. \A v \in Ways : polls[a][v] \in Nat
  OBVIOUS
<1>2. /\ polls'[a] = [polls[a] EXCEPT ![w] = @ - 1]
      /\ \A b \in Attempts : b # a => polls'[b] = polls[b]
  OBVIOUS
<1>3. polls'[a][w] = polls[a][w] - 1 /\ \A v \in Ways : v # w => polls'[a][v] = polls[a][v]
  BY <1>2
<1>4. polls' \in [Attempts -> [Ways -> 0 .. MaxOpen]]
  <2>1. polls[a][w] - 1 \in 0 .. MaxOpen
    BY <1>1
  <2>2. QED
    BY <2>1
<1>5. Open(a)' <= MaxOpen
  BY <1>1, <1>3 DEF Open, Ways, PollsAreBounded
<1>6. QED
  BY <1>2, <1>4, <1>5 DEF PollsAreBounded, Open

LEMMA TickInv ==
  ASSUME MaxAttempts \in Nat, MaxOpen \in Nat, SignInInv, NEW a \in Attempts, Tick(a)
  PROVE  SignInInv'
<1>1. /\ polls \in [Attempts -> [Ways -> 0 .. MaxOpen]] /\ "sent" \in Ways
      /\ polls' = [polls EXCEPT ![a] = [polls[a] EXCEPT !["sent"] = @ + 1]]
      /\ Open(a) < MaxOpen
  BY DEF SignInInv, TypeOK, Tick, Ways
<1>2. \A w \in Ways : polls[a][w] \in Nat
  BY <1>1
<1>3. /\ polls'[a] = [polls[a] EXCEPT !["sent"] = @ + 1]
      /\ \A b \in Attempts : b # a => polls'[b] = polls[b]
  BY <1>1
<1>4. /\ polls'[a]["sent"] = polls[a]["sent"] + 1
      /\ \A w \in Ways : w # "sent" => polls'[a][w] = polls[a][w]
  BY <1>1, <1>3
<1>5. polls[a]["sent"] + 1 \in 0 .. MaxOpen /\ Open(a)' <= MaxOpen
  BY <1>1, <1>2, <1>4 DEF Open, Ways
<1>6. polls' \in [Attempts -> [Ways -> 0 .. MaxOpen]]
  BY <1>1, <1>5
<1>7. attempts' \in [Attempts -> 0 .. MaxAttempts + 1]
  <2>1. (IF attempts[a] > MaxAttempts THEN attempts[a] ELSE attempts[a] + 1)
          \in 0 .. MaxAttempts + 1
    BY DEF SignInInv, TypeOK
  <2>2. QED
    BY <2>1 DEF SignInInv, TypeOK, Tick
<1>8. TypeOK'
  BY <1>6, <1>7 DEF SignInInv, TypeOK, Tick
<1>9. PollsAreBounded'
  BY <1>3, <1>5 DEF SignInInv, PollsAreBounded, Open
<1>10. WaitingIsServed'
  BY DEF SignInInv, WaitingIsServed, Tick
<1>11. QED
  BY <1>8, <1>9, <1>10 DEF SignInInv

\* An attempt leaves the stages that are waited for only with the screen.
LEMMA SignInNextInv ==
  ASSUME MaxAttempts \in Nat, MaxOpen \in Nat
  PROVE  SignInInv /\ [Next]_vars => SignInInv'
<1> SUFFICES ASSUME SignInInv, [Next]_vars PROVE SignInInv'
  OBVIOUS
<1>0. /\ TypeOK /\ PollsAreBounded /\ WaitingIsServed
      /\ polls \in [Attempts -> [Ways -> 0 .. MaxOpen]]
  BY DEF SignInInv, TypeOK
<1>1. ASSUME UNCHANGED polls, TypeOK', WaitingIsServed'
      PROVE  SignInInv'
  BY <1>0, <1>1 DEF SignInInv, PollsAreBounded, Open
<1>2. ASSUME polls' \in [Attempts -> [Ways -> 0 .. MaxOpen]] /\ PollsAreBounded',
             flows' \in [Attempts -> {"none", "pending", "completed"}],
             UNCHANGED <<attempts, lossy>>, session' \in BOOLEAN,
             \/ UNCHANGED <<mode, stage>>
             \/ /\ mode' \in {"hidden", "domain"}
                /\ \E a \in Attempts : stage' = [stage EXCEPT ![a] = "stopped"]
      PROVE  SignInInv'
  <2>1. TypeOK'
    BY <1>0, <1>2 DEF TypeOK
  <2>2. WaitingIsServed'
    BY <1>0, <1>2 DEF WaitingIsServed
  <2>3. QED
    BY <1>2, <2>1, <2>2 DEF SignInInv
<1>3. CASE Toggle \/ Leave \/ Settle
  BY <1>0, <1>1, <1>3 DEF Toggle, Leave, Settle, TypeOK, WaitingIsServed
<1>4. ASSUME NEW a \in Attempts, Submit(a) \/ Authorize(a) \/ Refuse(a)
      PROVE  SignInInv'
  <2>1. TypeOK'
    BY <1>0, <1>4 DEF Submit, Authorize, Refuse, TypeOK
  <2>2. WaitingIsServed'
    BY <1>0, <1>4 DEF Submit, Authorize, Refuse, TypeOK, WaitingIsServed
  <2>3. QED
    BY <1>1, <1>4, <2>1, <2>2 DEF Submit, Authorize, Refuse
<1>5. ASSUME NEW a \in Attempts, Callback(a) \/ Forget(a)
      PROVE  SignInInv'
  BY <1>0, <1>1, <1>5 DEF Callback, Forget, TypeOK, WaitingIsServed
<1>6. ASSUME NEW a \in Attempts, Poll(a) \/ Decline(a)
      PROVE  SignInInv'
  <2>1. Move(a, "sent", "completed") \/ Move(a, "sent", "pending")
    BY <1>6 DEF Poll, Decline
  <2>2. polls' \in [Attempts -> [Ways -> 0 .. MaxOpen]] /\ PollsAreBounded'
    BY <1>0, <2>1, PollMoves DEF Ways
  <2>3. flows' \in [Attempts -> {"none", "pending", "completed"}]
    BY <1>0, <1>6 DEF Poll, Decline, TypeOK
  <2>4. QED
    BY <1>0, <1>2, <1>6, <2>2, <2>3 DEF Poll, Decline, TypeOK
<1>7. ASSUME NEW a \in Attempts, Lose(a) \/ SignedIn(a) \/ NotYet(a)
      PROVE  SignInInv'
  <2>1. \E w \in Ways : polls[a][w] > 0 /\ polls' = [polls EXCEPT ![a][w] = @ - 1]
    BY <1>7 DEF Lose, SignedIn, NotYet, Ways
  <2>2. polls' \in [Attempts -> [Ways -> 0 .. MaxOpen]] /\ PollsAreBounded'
    BY <1>0, <2>1, PollLeaves
  <2>3. QED
    BY <1>0, <1>2, <1>7, <2>2 DEF Lose, SignedIn, NotYet, TypeOK
<1>8. ASSUME NEW a \in Attempts, Tick(a)
      PROVE  SignInInv'
  BY <1>8, TickInv
<1>9. CASE UNCHANGED vars
  BY <1>0, <1>1, <1>9 DEF vars, TypeOK, WaitingIsServed
<1>10. QED
  BY <1>3, <1>4, <1>5, <1>6, <1>7, <1>8, <1>9 DEF Next, Proceeds

LEMMA SignInInitInv ==
  ASSUME MaxAttempts \in Nat, MaxOpen \in Nat
  PROVE  Init => SignInInv
<1> SUFFICES ASSUME Init PROVE SignInInv
  OBVIOUS
<1>1. 0 \in 0 .. MaxOpen /\ 0 \in 0 .. MaxAttempts + 1
  OBVIOUS
<1>2. TypeOK
  BY <1>1 DEF Init, TypeOK
<1>3. PollsAreBounded
  BY DEF Init, PollsAreBounded, Open, Ways
<1>4. WaitingIsServed
  BY DEF Init, WaitingIsServed
<1>5. QED
  BY <1>2, <1>3, <1>4 DEF SignInInv

\* Every variable of the sign-in keeps its type: the counter of an attempt and
\* its polls under way stay within their bounds.
THEOREM SignInTypeCorrect ==
  ASSUME MaxAttempts \in Nat, MaxOpen \in Nat
  PROVE  Spec => []TypeOK
<1>1. SignInInv => TypeOK
  BY DEF SignInInv
<1>2. QED
  BY <1>1, SignInInitInv, SignInNextInv, PTL DEF Spec

\* The waiting screen always has an attempt behind it that is still asking or
\* polling, for any number of attempts, abandoned or repeated.
\* (handleSSOLogin, pollSSO)
THEOREM WaitingIsAlwaysServed ==
  ASSUME MaxAttempts \in Nat, MaxOpen \in Nat
  PROVE  Spec => []WaitingIsServed
<1>1. SignInInv => WaitingIsServed
  BY DEF SignInInv
<1>2. QED
  BY <1>1, SignInInitInv, SignInNextInv, PTL DEF Spec
=============================================================================
