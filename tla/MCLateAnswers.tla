---------------------------- MODULE MCLateAnswers ----------------------------
(***************************************************************************)
(* Small instances, for one run of TLC, of four parts that go on with what *)
(* they have read before they waited, while answers are late, overtaken or *)
(* lost: the gateway's cache of policies and its requests to a provider,   *)
(* the desktop's single sign-on and its chat.  They share no state.  A     *)
(* behaviour is about one of them, picked at the start, while the others   *)
(* stay as they begin: TLC explores the sum of them, not their product.    *)
(***************************************************************************)
EXTENDS PolicySnapshotCache, ProxyRequests, ChatTurns

CONSTANTS Parts,
          f1, f2, f3,   \* fetches of the cache
          q1, q2,       \* requests to the gateway
          a1, a2,       \* attempts to sign in
          s1,           \* the session of the chat that is active at first
          t1, t2        \* its turns

VARIABLES part,
          flows, mode, signing, attempts, polls, session, lossy

signInVars == <<flows, mode, signing, attempts, polls, session, lossy>>
partsVars == <<part, vars, requestVars, signInVars, chatVars>>

\* One retry; all the attempts together take at most three ticks.
BegunOnce == <<0, Timeout + BackoffUnit>>

Screen == INSTANCE SignIn WITH
  Attempts <- {a1, a2}, MaxAttempts <- 2, MaxOpen <- 2, stage <- signing
-----------------------------------------------------------------------------
\* Which fetch is the first and which session is active makes no difference.
PartsInit ==
  /\ part \in Parts
  /\ Init /\ fetch[f1] = "sent"
  /\ RequestsInit /\ Screen!Init
  /\ ChatInit /\ active = s1

InCache(step) ==
  part = "cache" /\ step /\ UNCHANGED <<part, requestVars, signInVars, chatVars>>
InProxy(step) ==
  part = "proxy" /\ step /\ UNCHANGED <<part, vars, signInVars, chatVars>>
InSignIn(step) ==
  part = "signin" /\ step /\ UNCHANGED <<part, vars, requestVars, chatVars>>
InChat(step) ==
  part = "chat" /\ step /\ UNCHANGED <<part, vars, requestVars, signInVars>>

PartsNext ==
  InCache(Next) \/ InProxy(RequestsNext) \/ InSignIn(Screen!Next) \/ InChat(ChatNext)

Proceeds(t) == t \in Turns /\ Proceed(t)

\* A fair step of each part beside one of the others, as only one of them
\* can be enabled.
PartsSpec ==
  /\ PartsInit /\ [][PartsNext]_partsVars
  /\ WF_partsVars(InCache(Tick) \/ InProxy(Elapse) \/ InSignIn(Screen!Settle))
  /\ WF_partsVars(InCache(Start) \/ InProxy(Step(q1)) \/ InChat(Proceeds(t1)))
  /\ WF_partsVars(InCache(\E f \in Fetches : Refresh(f)) \/ InProxy(Step(q2))
                    \/ InChat(Proceeds(t2)))
  /\ WF_partsVars(InCache(Arrive(f1) \/ Fail(f1)) \/ InSignIn(Screen!Proceeds(a1)))
  /\ WF_partsVars(InCache(Arrive(f2) \/ Fail(f2)) \/ InSignIn(Screen!Proceeds(a2)))
  /\ WF_partsVars(InCache(Arrive(f3) \/ Fail(f3)))
-----------------------------------------------------------------------------
(* Properties: those of the parts.                                         *)

(* See SignIn.                                                             *)
WaitEnds == Screen!WaitEnds
=============================================================================
