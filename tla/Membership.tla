---------------------------- MODULE Membership ----------------------------
(***************************************************************************)
(* Who belongs to an organization (control-api: storage/repository.ts, the *)
(* member and pairing routes of routes/desktop.ts, scim/scim.service.ts).  *)
(*                                                                         *)
(* A membership and its role belong to an organization; whether a user is  *)
(* disabled belongs to the user, in every organization at once.  Routes    *)
(* list the members before they call the repository, and the repository    *)
(* counts owners before it disables one: nothing is locked between what a  *)
(* request reads and what it writes.  What a transaction writes does not   *)
(* depend on the rows it overwrites, so all of it is in its COMMIT.        *)
(*                                                                         *)
(* Sessions are tokens that outlive a change of role, so any user may call.*)
(* Invitations are left out: the route that accepts one takes UUIDs only,  *)
(* and their codes are not.                                                *)
(*                                                                         *)
(* A definition named "...Slip" is a mistake one could make in the         *)
(* definition below it; the specification uses none.                       *)
(***************************************************************************)
EXTENDS FiniteSets, Naturals

CONSTANTS Requests, Orgs, Users, NoRequest,
          Codes, CodeOrg   \* the pairing codes, and who creates each

ASSUME CodesAssumption == NoRequest \notin Codes /\ CodeOrg \in [Codes -> Orgs]

VARIABLES role,       \* organization_memberships: a role, or "none"
          disabled,   \* platform_users.disabled_at IS NOT NULL
          code,       \* pairing_codes: unissued, active, used, expired
          joined,     \* history: who joined with each code
          memberPc,   \* a request: idle, count, check, disable, upsert
          memberOp,   \* what it asks for
          othersLeft, \* the other active owners it counted: is there one?
          outdated    \* history: members were written since it counted

memberVars == <<role, disabled, code, joined, memberPc, memberOp, othersLeft, outdated>>

Roles == {"owner", "developer"}
Ops == [org : Orgs, user : Users, role : Roles, code : Codes \cup {NoRequest}]

MembersTypeOK ==
  /\ role \in [Orgs -> [Users -> Roles \cup {"none"}]]
  /\ disabled \in SUBSET Users
  /\ code \in [Codes -> {"unissued", "active", "used", "expired"}]
  /\ joined \in [Codes -> SUBSET Users]
  /\ memberPc \in [Requests -> {"idle", "count", "check", "disable", "upsert"}]
  /\ memberOp \in [Requests -> Ops \cup {NoRequest}]
  /\ othersLeft \in [Requests -> BOOLEAN]
  /\ outdated \in [Requests -> BOOLEAN]

(* Every organization is created with an owner.                            *)
MembersInit ==
  /\ role \in {f \in [Orgs -> [Users -> {"owner", "none"}]] :
                 \A o \in Orgs : \E u \in Users : f[o][u] = "owner"}
  /\ disabled = {}
  /\ code = [c \in Codes |-> "unissued"]
  /\ joined = [c \in Codes |-> {}]
  /\ memberPc = [r \in Requests |-> "idle"]
  /\ memberOp = [r \in Requests |-> NoRequest]
  /\ othersLeft = [r \in Requests |-> FALSE]
  /\ outdated = [r \in Requests |-> FALSE]

Members(o) == {u \in Users : role[o][u] # "none"}
Owners(o) == {u \in Users : role[o][u] = "owner"}
ActiveOwners(o) == Owners(o) \ disabled
-----------------------------------------------------------------------------
Start(r, next, o, u, ro, c) ==
  /\ memberPc[r] = "idle"
  /\ memberPc' = [memberPc EXCEPT ![r] = next]
  /\ memberOp' = [memberOp EXCEPT ![r] = [org |-> o, user |-> u, role |-> ro, code |-> c]]
  /\ UNCHANGED <<role, disabled, joined, othersLeft, outdated>>

Finish(r) ==
  /\ memberPc' = [memberPc EXCEPT ![r] = "idle"]
  /\ memberOp' = [memberOp EXCEPT ![r] = NoRequest]
  /\ othersLeft' = [othersLeft EXCEPT ![r] = FALSE]

(* A write outdates what the others have read.                             *)
Outdate(r) ==
  outdated' = [q \in Requests |-> q # r /\ (outdated[q] \/ memberPc[q] \in {"check", "disable"})]

(* POST members, PUT members of the console, SCIM create and patch.        *)
AddMember(r, o, u, ro) == Start(r, "upsert", o, u, ro, NoRequest) /\ UNCHANGED code

(* PUT members/:userId. Only a caller that demotes itself is checked, and  *)
(* disabled owners count.                                                  *)
UpdateRole(r, o, caller, u, ro) ==
  /\ u \in Members(o)
  /\ ro # "owner" /\ u = caller => Cardinality(Owners(o)) > 1
  /\ Start(r, "upsert", o, u, ro, NoRequest)
  /\ UNCHANGED code

(* DELETE members/:userId disables the user.                               *)
DeleteMember(r, o, caller, u) ==
  /\ u = caller => Cardinality(Owners(o)) > 1
  /\ Start(r, "count", o, u, "developer", NoRequest)
  /\ UNCHANGED code

(* POST orgs/pair: the code is used up by one statement of its own.        *)
CodeUsableSlip(c) == code[c] \in {"active", "used"}
CodeUsable(c) == code[c] = "active"
Pair(r, u, c) ==
  /\ CodeUsable(c)
  /\ code' = [code EXCEPT ![c] = "used"]
  /\ Start(r, "upsert", CodeOrg[c], u, "developer", c)

(* disableOrganizationMember, statement by statement.                      *)
AnotherOwnerSlip(o, u) == Owners(o) \ {u} # {}
AnotherOwner(o, u) == ActiveOwners(o) \ {u} # {}

CountOwners(r) ==
  /\ memberPc[r] = "count"
  /\ othersLeft' = [othersLeft EXCEPT ![r] = AnotherOwner(memberOp[r].org, memberOp[r].user)]
  /\ outdated' = [outdated EXCEPT ![r] = FALSE]
  /\ memberPc' = [memberPc EXCEPT ![r] = "check"]
  /\ UNCHANGED <<role, disabled, code, joined, memberOp>>

CheckRole(r) ==
  /\ memberPc[r] = "check"
  /\ memberOp[r].user \in Members(memberOp[r].org)
  /\ memberOp[r].user \in Owners(memberOp[r].org) => othersLeft[r]
  /\ memberPc' = [memberPc EXCEPT ![r] = "disable"]
  /\ UNCHANGED <<role, disabled, code, joined, memberOp, othersLeft, outdated>>

CommitDisable(r) ==
  /\ memberPc[r] = "disable"
  /\ disabled' = disabled \cup {memberOp[r].user}
  /\ Outdate(r) /\ Finish(r)
  /\ UNCHANGED <<role, code, joined>>

(* upsertOrganizationMember also enables the user again.                   *)
CommitUpsert(r) ==
  /\ memberPc[r] = "upsert"
  /\ disabled' = disabled \ {memberOp[r].user}
  /\ role' = [role EXCEPT ![memberOp[r].org][memberOp[r].user] = memberOp[r].role]
  /\ joined' =
       [c \in Codes |-> joined[c] \cup (IF c = memberOp[r].code THEN {memberOp[r].user} ELSE {})]
  /\ Outdate(r) /\ Finish(r)
  /\ UNCHANGED code

(* A refused check, a failed statement or a dead process rolls back; a     *)
(* code that was used stays used.                                          *)
GiveUp(r) ==
  /\ memberPc[r] # "idle"
  /\ outdated' = [outdated EXCEPT ![r] = FALSE]
  /\ Finish(r)
  /\ UNCHANGED <<role, disabled, code, joined>>

(* SCIM: DELETE, and PATCH with active = false. One statement.             *)
RemoveMember(o, u) ==
  /\ u \in Members(o)
  /\ role' = [role EXCEPT ![o][u] = "none"]
  /\ outdated' = [q \in Requests |-> outdated[q] \/ memberPc[q] \in {"check", "disable"}]
  /\ UNCHANGED <<disabled, code, joined, memberPc, memberOp, othersLeft>>

(* ensureOrganization: PUT orgs/:id makes the caller an owner, the console *)
(* whom it likes.                                                          *)
EnsureOrganization(o, u) ==
  /\ role' = [role EXCEPT ![o][u] = "owner"]
  /\ outdated' = [q \in Requests |-> outdated[q] \/ memberPc[q] \in {"check", "disable"}]
  /\ UNCHANGED <<disabled, code, joined, memberPc, memberOp, othersLeft>>

CreatePairingCode(c) ==
  /\ code[c] = "unissued"
  /\ code' = [code EXCEPT ![c] = "active"]
  /\ UNCHANGED <<role, disabled, joined, memberPc, memberOp, othersLeft, outdated>>

CodeExpires(c) ==
  /\ code[c] = "active"
  /\ code' = [code EXCEPT ![c] = "expired"]
  /\ UNCHANGED <<role, disabled, joined, memberPc, memberOp, othersLeft, outdated>>

MembersNext ==
  \/ \E r \in Requests, o \in Orgs, u \in Users :
       \/ \E ro \in Roles : AddMember(r, o, u, ro)
       \/ \E caller \in Users, ro \in Roles : UpdateRole(r, o, caller, u, ro)
       \/ \E caller \in Users : DeleteMember(r, o, caller, u)
  \/ \E r \in Requests, u \in Users, c \in Codes : Pair(r, u, c)
  \/ \E r \in Requests :
       CountOwners(r) \/ CheckRole(r) \/ CommitDisable(r) \/ CommitUpsert(r) \/ GiveUp(r)
  \/ \E o \in Orgs, u \in Users : RemoveMember(o, u) \/ EnsureOrganization(o, u)
  \/ \E c \in Codes : CreatePairingCode(c) \/ CodeExpires(c)

MembersSpec == MembersInit /\ [][MembersNext]_memberVars
-----------------------------------------------------------------------------
(* Properties.                                                             *)

(* If nothing was written between a request's count of the owners and its  *)
(* COMMIT, disabling a member leaves the organization an active owner, in  *)
(* whatever order members were added, demoted, removed and disabled        *)
(* before.  (disableOrganizationMember)                                    *)
OwnerOutlivesDisable ==
  [][\A r \in Requests, o \in Orgs :
       /\ CommitDisable(r) /\ memberOp[r].org = o /\ ~outdated[r]
       /\ ActiveOwners(o) # {}
       => ActiveOwners(o)' # {}]_memberVars

(* "At least one active owner is required." (disableOrganizationMember)    *)
DisableKeepsOwner ==
  [][\A r \in Requests, o \in Orgs :
       CommitDisable(r) /\ memberOp[r].org = o /\ ActiveOwners(o) # {}
       => ActiveOwners(o)' # {}]_memberVars

(* A pairing code lets in one user at most, and none after it expired      *)
(* unused, however many devices send it at once.  (validatePairingCode)    *)
CodeAdmitsOne ==
  \A c \in Codes :
    Cardinality(joined[c]) <= 1 /\ (joined[c] # {} => code[c] = "used")
-----------------------------------------------------------------------------
(* Why they hold.                                                          *)

CountIsCurrent ==
  \A r \in Requests :
    LET o == memberOp[r].org
        u == memberOp[r].user
    IN  /\ memberPc[r] = "check" /\ ~outdated[r] /\ othersLeft[r] => ActiveOwners(o) \ {u} # {}
        /\ memberPc[r] = "disable" /\ ~outdated[r] /\ u \in Owners(o) => ActiveOwners(o) \ {u} # {}

Carries(r, c) == memberPc[r] = "upsert" /\ memberOp[r].code = c

CodesAreSpent ==
  \A c \in Codes :
    /\ joined[c] # {} => code[c] = "used"
    /\ \A r \in Requests :
         Carries(r, c) => /\ code[c] = "used" /\ joined[c] = {}
                          /\ \A q \in Requests : Carries(q, c) => q = r

(* The inductive invariant.                                                *)
MembersIndInv ==
  /\ MembersTypeOK
  /\ \A r \in Requests : memberPc[r] # "idle" => memberOp[r] \in Ops
  /\ CountIsCurrent
  /\ CodesAreSpent
  /\ CodeAdmitsOne
=============================================================================
