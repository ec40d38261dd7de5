----------------------------- MODULE Connectors -----------------------------
(***************************************************************************)
(* The connectors of an organization: an OAuth state is handed out, comes  *)
(* back once and becomes a connection that can be revoked (control-api:    *)
(* storage/repository.ts, startConnectorOAuth to                           *)
(* revokeConnectorConnection).                                             *)
(*                                                                         *)
(* Completing locks the row of the state, revoking the row of the          *)
(* connection; either waits for the holder and looks at the row again.     *)
(* NOW() is the time of BEGIN: a state may expire while its transaction    *)
(* waits.  What a transaction writes nobody sees before its COMMIT.        *)
(*                                                                         *)
(* A definition named "...Slip" is a mistake one could make in the         *)
(* definition below it; the specification uses none.                       *)
(***************************************************************************)
EXTENDS FiniteSets, Naturals

CONSTANTS Callbacks,  \* the requests that complete a state
          States, NoCallback, NoState

ASSUME CallbacksAssumption == NoCallback \notin Callbacks

VARIABLES state,     \* connector_oauth_states: none, open, consumed
          overdue,   \* the states whose expires_at has passed
          active,    \* the active connections: who completed which state
          revoked,   \* the revoked ones
          links,     \* the audit events of a connection
          stateLock, \* the request that holds the row of a state
          linkPc,    \* a request: idle, begun, locked
          linkOp,    \* the state it completes
          inTime     \* had the state not expired at BEGIN?

linkVars == <<state, overdue, active, revoked, links, stateLock, linkPc, linkOp, inTime>>

Connections == [by : Callbacks, state : States]
connections == active \cup revoked

LinksTypeOK ==
  /\ state \in [States -> {"none", "open", "consumed"}]
  /\ overdue \subseteq States
  /\ active \subseteq Connections /\ revoked \subseteq Connections
  /\ links \subseteq {"connected", "revoked"} \X Connections
  /\ stateLock \in [States -> Callbacks \cup {NoCallback}]
  /\ linkPc \in [Callbacks -> {"idle", "begun", "locked"}]
  /\ linkOp \in [Callbacks -> States \cup {NoState}]
  /\ inTime \in [Callbacks -> BOOLEAN]

LinksInit ==
  /\ state = [s \in States |-> "none"] /\ overdue = {}
  /\ active = {} /\ revoked = {} /\ links = {}
  /\ stateLock = [s \in States |-> NoCallback]
  /\ linkPc = [r \in Callbacks |-> "idle"]
  /\ linkOp = [r \in Callbacks |-> NoState]
  /\ inTime = [r \in Callbacks |-> FALSE]
-----------------------------------------------------------------------------
StartOAuth(s) ==
  /\ state[s] = "none"
  /\ state' = [state EXCEPT ![s] = "open"]
  /\ UNCHANGED <<overdue, active, revoked, links, stateLock, linkPc, linkOp, inTime>>

StateExpires(s) ==
  /\ state[s] # "none" /\ s \notin overdue
  /\ overdue' = overdue \cup {s}
  /\ UNCHANGED <<state, active, revoked, links, stateLock, linkPc, linkOp, inTime>>

(* completeConnectorOAuth.                                                 *)
BeginCallback(r, s) ==
  /\ linkPc[r] = "idle"
  /\ linkPc' = [linkPc EXCEPT ![r] = "begun"]
  /\ linkOp' = [linkOp EXCEPT ![r] = s]
  /\ inTime' = [inTime EXCEPT ![r] = s \notin overdue]
  /\ UNCHANGED <<state, overdue, active, revoked, links, stateLock>>

StateUsableSlip(r, s) == inTime[r] /\ state[s] # "none"
StateUsable(r, s) == inTime[r] /\ state[s] = "open"

LockState(r) ==
  LET s == linkOp[r]
  IN  /\ linkPc[r] = "begun" /\ stateLock[s] = NoCallback /\ StateUsable(r, s)
      /\ stateLock' = [stateLock EXCEPT ![s] = r]
      /\ linkPc' = [linkPc EXCEPT ![r] = "locked"]
      /\ UNCHANGED <<state, overdue, active, revoked, links, linkOp, inTime>>

EndCallback(r) ==
  /\ stateLock' = [s \in States |-> IF stateLock[s] = r THEN NoCallback ELSE stateLock[s]]
  /\ linkPc' = [linkPc EXCEPT ![r] = "idle"]
  /\ linkOp' = [linkOp EXCEPT ![r] = NoState]
  /\ inTime' = [inTime EXCEPT ![r] = FALSE]

Complete(r) ==
  LET c == [by |-> r, state |-> linkOp[r]]
  IN  /\ linkPc[r] = "locked"
      /\ state' = [state EXCEPT ![linkOp[r]] = "consumed"]
      /\ active' = active \cup {c}
      /\ links' = links \cup {<<"connected", c>>}
      /\ EndCallback(r)
      /\ UNCHANGED <<overdue, revoked>>

(* "Connector OAuth state does not exist.", a scope that is not allowed, a *)
(* failed statement, a dead process.                                       *)
FailCallback(r) ==
  /\ linkPc[r] # "idle" /\ EndCallback(r)
  /\ UNCHANGED <<state, overdue, active, revoked, links>>

(* revokeConnectorConnection: one UPDATE, which also clears the tokens, of *)
(* a connection that is not revoked; a second one waits and finds none.    *)
Revoke(c) ==
  /\ c \in active
  /\ active' = active \ {c} /\ revoked' = revoked \cup {c}
  /\ links' = links \cup {<<"revoked", c>>}
  /\ UNCHANGED <<state, overdue, stateLock, linkPc, linkOp, inTime>>

LinksNext ==
  \/ \E s \in States : StartOAuth(s) \/ StateExpires(s) \/ \E r \in Callbacks : BeginCallback(r, s)
  \/ \E r \in Callbacks : LockState(r) \/ Complete(r) \/ FailCallback(r)
  \/ \E c \in active : Revoke(c)

LinksSpec == LinksInit /\ [][LinksNext]_linkVars
-----------------------------------------------------------------------------
(* Properties.                                                             *)

(* However often and at how many places a state comes back, before and     *)
(* after its connection was revoked, it becomes one connection, and only   *)
(* the request that consumed it connects. (completeConnectorOAuth)         *)
StateConnectsOnce ==
  \A s \in States :
    LET of == {c \in connections : c.state = s}
    IN  Cardinality(of) <= 1 /\ (state[s] = "consumed" <=> of # {})

(* What the organization is promised: ConnectionBook, where each request   *)
(* happens at one instant.  However callbacks, expiry and revocation       *)
(* overlap, the transactions keep it. (startConnectorOAuth to              *)
(* revokeConnectorConnection)                                              *)
LinksBook == INSTANCE ConnectionBook WITH
  issued <- {s \in States : state[s] # "none"},
  unused <- {s \in States : state[s] = "open"},
  expired <- overdue,
  due <- {c \in Connections : linkPc[c.by] # "idle" /\ linkOp[c.by] = c.state /\ inTime[c.by]},
  trail <- links

ImplementsConnectionBook == LinksBook!Spec
-----------------------------------------------------------------------------
(* Why they hold.                                                          *)

LockedIsOpen ==
  \A r \in Callbacks :
    LET s == linkOp[r]
    IN  linkPc[r] = "locked" =>
        s \in States /\ stateLock[s] = r /\ state[s] = "open" /\ inTime[r]

(* The inductive invariant.                                                *)
LinksIndInv ==
  /\ LinksTypeOK
  /\ \A r \in Callbacks : linkPc[r] # "idle" => linkOp[r] \in States
  /\ LockedIsOpen
  /\ StateConnectsOnce
=============================================================================
