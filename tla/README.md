# Oclushion: specifications, model checking and proofs

Oclushion is a workspace for developers who let language models work on their
code, with a control plane for the organizations that pay for it. This directory
holds TLA+ modules of the parts of it whose correctness depends on the order in
which things happen, the TLC configurations that check them, and proofs that
the TLA+ proof system checks. Paths below are relative to the repository.

1. [The system](#the-system)
2. [The modules, and how they correspond to the code](#the-modules)
3. [The runs: bounds, fairness, results](#the-runs)
4. [What is proved](#what-is-proved)
5. [Where the code disagrees with what it says](#findings)
6. [What is not modelled, and the plan](#plan)

To check a module: `tlc -config ControlApi_checked.cfg MCControlApi`; to
check its proofs: `tlapm CreditLedgerProofs.tla`.

<a name="the-system"></a>
## 1. The system

```
   desktop-shell (Tauri, TypeScript)            browser extension, SDK, agents
     orchestrator, kanban, phantom loop,              |  POST /v1/...
     chat, fast apply, audit log                      |
     |  invoke            \  HTTPS                    v
     v                     \                   sano-shield-proxy (gateway)
   agent-canvas, mcp-client,\                    |        |          |
   secure-sandbox, hive-     v                  Redis   provider   PostgreSQL
   memory, local-inference  control-api  <------ policy snapshots     |
   (Rust)                        |                                    |
                                 +------------ PostgreSQL ------------+
```

The control API keeps everything in PostgreSQL (one transaction per request,
READ COMMITTED, through a connection pool, `storage/repository.ts`), except the
flows of single sign-on, which are in its memory. The gateway polls it for the
policy each organization has published, looks keys up and stores its audit
events in the same database. The desktop shell is one JavaScript thread with
awaits; the Rust crates share state between threads under locks.

### Inventory

For each part: the state it keeps, what changes it, and what makes it correct.
"hard" says where tests do not reach. The parts in bold are modelled.

| part | state | operations | hard | correct means |
|---|---|---|---|---|
| **credit ledger** (control-api `repository.ts` 2312-2498, 2668-2712) | row of `organizations` (limit, spend, date), `credit_ledger_entries`, billing audit events | `debitCredits`, `grantCredits`, `getSpendCap`, `updateSpendCap` | retries with the same key at the same time, midnight while waiting for a lock, an owner lowering the cap in between, rollback half-way | a key is applied and audited once; the counter grows only within the limit; a request is atomic |
| **policy registry** (`repository.ts` 761-902, 1079-1240) | `policy_sets`, `policy_versions`, `policy_bindings`, audit events | create set / version, publish, bind, upsert | two writers of one set, or of one binding from different sets | one version is published, numbers are fresh, a bound module is always served |
| **members, pairing codes** (`repository.ts` 2096-2189, 2893-2934, `routes/desktop.ts`, `scim/`) | memberships with role, disabled users, pairing codes | add, change role, disable, remove, pair a device | two owners disabling each other, a request that fails between two transactions | an active owner remains; a code is used once |
| **gateway keys** (`repository.ts` 904-1077, `client-api-key-verifier.ts`) | keys with status and expiry | create, rotate, revoke, resolve | rotation beside another one, revocation or expiry | a rotated or revoked key never becomes valid again; it has one successor |
| **connectors** (`repository.ts` 1398-1572) | OAuth states, connections | start, callback, revoke | a callback delivered twice, late, or after the revocation | a state becomes one connection |
| **single sign-on** (`auth/sso.service.ts`, desktop `event-handlers.ts` 2451-2533, 2678-2690) | flows in memory; the screen, its timer and its counter | begin, complete, poll, cancel | polls that overlap, get lost or come back after the user left; flows that are forgotten | the waiting screen ends |
| trials, usage events, jobs (`billing/`, `jobs/`, `repository.ts` 2936-3060) | a row of an organization; BullMQ queues | start, expire, remind; enqueue, handle | attempts that never happen | - |
| **snapshot cache** (gateway `policy-snapshot-cache.ts`) | cached snapshot and when it was stored, timer | start, refresh, get, close | overlapping fetches, late answers, a control API that is gone | what is enforced is not too old, does not go back without need, becomes the current one |
| **requests to a provider** (gateway `routes/proxy.ts` with its stores) | mappings in Redis with a TTL, audit events, attempts at the provider | evaluate, tokenize, put, forward with retries, take, record, answer | storage failing before or after it acted, late attempts, a crash, an expiring mapping | no answer without its audit event; the trail is true; tokens are restored |
| **tokenization** (`payload-sanitizer.ts`) | none between calls; a mapping that grows string by string | normalize, tokenize, reverse | overlapping reports, lengths that change, tokens the user typed | nothing detected is sent; an echo is restored |
| **policy evaluation** (`packages/policy-runtime`) | none; reads the clock for every rule | match, combine | the minute changes within a decision, windows over midnight | at least as strict as every rule that applies |
| circuit breaker (`auth-circuit-breaker.ts`) | window of outcomes, open since | record, allow | - | only logs |
| **agent orchestrator** (desktop `agents/agent-orchestrator.ts`, `file-ownership.service.ts`) | active plan, state of each task, file locks | orchestrate, cancel, run batches, acquire and release | a cancelled run that goes on, throws within a batch, agents that compete for files | locks never leak or overlap; one session; batches in order; every session returns |
| **kanban and hand-off** (desktop `kanban/`) | board, stored after an await; listeners | move, edit, hand a task to the agents | a hand-off that the orchestrator refuses, writes that land out of order | a task is with its agents, then in review; the stored board is the last one |
| **phantom scheduler** (desktop `phantom/`) | session, queue, loop | start, end, queue, loop with sleeps | a loop that outlives its session | a task is executed once, and eventually |
| **audit log** (desktop `audit.service.ts`) | local log, stored after every change; batches under way | record, dispatch, flush, restart | the log changes while a batch is under way; an answer is lost | what is shown as synced is at the server |
| **fast apply** (desktop `fast-apply/`) | a snapshot for every change, the file | apply, accept, revert | accepting or reverting while a revert is being written or has failed | the file is what the review says |
| **chat** (desktop `event-handlers.ts` 347-507, `chat-orchestrator.ts`, `chat/`) | active session, messages shown, messages stored, a flag | send, suggest a skill, answer, switch | appends and loads that overlap, an early return | what is shown is stored; a turn ends |
| **workflow execution** (`packages/agent-canvas`) | degrees and queue of the sort; steps, results, a flag | sort, run a step, retry, skip, fall back, cancel | several edges between two nodes, failures within a step | refused exactly if cyclic; nothing runs before what it depends on |
| **MCP client** (`packages/mcp-client`) | servers, running servers, tools, each under a lock | connect, disconnect, restart, call, stop all | a restart that fails half-way, locks taken in an order | tools match what runs; no call waits for ever |
| secure-sandbox, local-inference, hive-memory (Rust) | caches, a child process, replicas | - | lock order, a full channel, equal timestamps | - |
| views, content, kits, scanners, deployment | none that matters between two calls | rendering, parsing, wrapping other programs | - | - |

`PROJECT.json` lists every part with its files and status, and under `hazards`
each of these hard places at its line, with the properties that watch it.

<a name="the-modules"></a>
## 2. The modules, and how they correspond to the code

| component | specification | promise it implements | instances for TLC | proofs |
|---|---|---|---|---|
| credit ledger | `CreditLedger` | `AtomicLedger` | `MCCreditLedger`, `MCControlApi` | `CreditLedgerProofs` |
| policy registry | `PolicyRegistry` | `PolicyBook` | `MCPolicyRegistry`, `MCSafety`; bindings: `MCControlApi` | `PolicyRegistryProofs` |
| members, pairing codes | `Membership` | | `MCSafety` | `ControlApiProofs` |
| gateway keys | `ApiKeys` | `KeyBook` | `MCSafety` | `ControlApiProofs` |
| connectors | `Connectors` | `ConnectionBook` | `MCSafety` | `ControlApiProofs` |
| single sign-on | `SignIn` | | `MCLateAnswers` | `ControlApiProofs` |
| snapshot cache | `PolicySnapshotCache` | | `MCLateAnswers` | `PolicySnapshotCacheProofs` |
| gateway requests | `ProxyTiming`, `ProxyRequests` | `AuditedAnswers` | `MCProxyRequests`, `MCLateAnswers` | `ProxyRequestsProofs` |
| tokenization | `PayloadTokens` | | `MCSafety` | `ProxyRequestsProofs` |
| policy evaluation | `PolicyEvaluation` | | `MCSafety` | `ExecutionProofs` |
| agent orchestrator | `AgentOrchestrator` | | `MCAgentOrchestrator`, `MCDesktop` | `AgentOrchestratorProofs` |
| kanban and hand-off | `KanbanBoard` | | `MCDesktop` | `DesktopProofs` |
| phantom scheduler | `PhantomScheduler` | | `MCDesktop` | `DesktopProofs` |
| audit log | `AuditSync` | | `MCSafety` | `DesktopProofs` |
| fast apply | `FastApply` | | `MCSafety` | `DesktopProofs` |
| chat | `ChatTurns` | | `MCLateAnswers` | `ExecutionProofs` |
| workflow execution | `WorkflowRun` | | `MCSafety` | `ExecutionProofs` |
| MCP client | `McpServers` | | `MCDesktop` | `ExecutionProofs` |

In every specification a definition called `...Slip` stands before the
definition it is named after and is a plausible mistake in it (a dropped guard,
a missing reset). The specifications use none of them. Putting `XSlip` for the
body of `X` makes TLC find the property violated that `PROJECT.json` names
beside it under `mutants`; this is how each property is known to depend on
the code. `PROJECT.json` `map` gives the lines of each definition. `...IndInv`
(`IndInv` in the modules without a prefix, `SignInInv` in `SignIn`) at the end of
a specification is the inductive invariant of its proofs.

`Init`, `Next`, `Spec` and `TypeOK` have a prefix in some modules (`KeysInit`,
`FlowNext`): these modules, and the variables they declare, are named so that
one module can extend several of them.

**Galleries.** `MCControlApi`, `MCSafety`, `MCDesktop` and `MCLateAnswers` each
hold small instances of several parts, so that one run of TLC checks all of
them. The parts of a gallery share no state. A variable `part` says which of
them a behaviour is about; the others stay as they begin, so that TLC explores
the sum of the parts and not their product, and a property of one of them says
of its behaviours exactly what it says in a run of its own. A gallery extends
the specifications where their names allow it and instantiates the others.

### CreditLedger (control-api, `storage/repository.ts`)

One organization. The grain is the SQL statement, because that is where
PostgreSQL lets another connection in.

| TLA+ | code |
|---|---|
| `row`, `draft`, `lock` | the row of `organizations`: the committed version, the version of the transaction that has updated it, and who holds the row lock by having done so |
| `ledger`, `audit` | rows of `credit_ledger_entries` and of `platform_audit_events`, committed |
| `pc`, `op`, `inserted` | a connection: its next statement, its request with the day of its `BEGIN`, and whether its `INSERT` returned a row |
| `today` | the date of the database's clock; `op.day` is `CURRENT_DATE`, which in a transaction is that of its start |
| `AdmitDebit`, `RefuseDebit`, `SkipCap` | `assertSpendCapForClient`: the `UPDATE ... RETURNING` that rolls the day over, and the comparison; free models return early |
| `InsertEntry` | `INSERT ... ON CONFLICT DO NOTHING`, which waits for an uncommitted row with the key |
| `CountSpend`, `Commit`, `Rollback` | `incrementDailySpendForClient`, `recordAudit` with `COMMIT`, and `inTransaction`'s error path or a dead process |
| `UpdateCapRow` | `getSpendCap` and `updateSpendCap`, single statements |

Abstracted: balances (sums over the ledger that decide nothing), metadata,
formatting of the 429. A retry of a request is another `Begin` with the same
key, with the same or with other contents, as clients and Stripe may send.

`AtomicLedger` is what callers may rely on: each request takes effect at one
instant. `CreditLedger` implements it with the committed variables as they are.

### PolicyRegistry (control-api, `storage/repository.ts`)

One organization's sets, versions and bindings, again statement by statement.

| TLA+ | code |
|---|---|
| `created`, `status`, `binding`, `trail` | committed rows of `policy_sets`, `policy_versions`, `policy_bindings`, `platform_audit_events` |
| `setLock`, `bindLock` | row locks: by `SELECT ... FOR UPDATE` (`requirePolicy`), by an inserted row, by `ON CONFLICT DO UPDATE` |
| `wrote`, `View` | a transaction's uncommitted writes; what a READ COMMITTED statement of it sees |
| `LockSet`, `InsertVersion`, `SelectTarget`, `DemoteOthers`, `PromoteTarget`, `ApproveBinding`, `UpsertBinding`, `Commit` | the statements of `createPolicySet`, `createPolicyVersion`, `publishPolicyVersion`, `bindModulePolicy`, `upsertModulePolicy`, in their order |
| `Refuse`, `Fail` | thrown conflicts and missing rows; a failed statement or a dead process. Both roll back |

The rules within a version never change and decide nothing here, so a version
is a number and a status. The two unique indexes are left out of the guards on
purpose: the properties say that they are never what stops a transaction.
`PolicyBook` is the promise: requests that happen at one instant.

### Membership (control-api, `storage/repository.ts`, `routes/desktop.ts`, `scim/`)

| TLA+ | code |
|---|---|
| `role`, `disabled`, `code` | `organization_memberships`, `platform_users.disabled_at` (of the user, in every organization), `pairing_codes` |
| `memberPc`, `memberOp`, `othersLeft` | a request: what it has still to do, what it asks for, and the result of its count of other active owners |
| `CountOwners`, `CheckRole`, `CommitDisable` | the three steps of `disableOrganizationMember`, which lock nothing |
| `AddMember`, `UpdateRole`, `DeleteMember` | the routes: they list the members, decide, and call the repository, where another request may come in between |
| `CommitUpsert`, `RemoveMember`, `EnsureOrganization` | `upsertOrganizationMember`, `removeOrganizationMember`, `ensureOrganization` |
| `Pair` | `validatePairingCode`, one `UPDATE ... RETURNING` that uses the code up; the member is written by a later transaction |
| `GiveUp` | a request that fails or whose process dies between two transactions |

Roles other than the owner's decide nothing here and are one. `joined` and
`outdated` are histories for the properties.

### ApiKeys (control-api, with the gateway's verifier)

| TLA+ | code |
|---|---|
| `row`, `expired`, `heir` | `client_api_keys`: its status, whether `expires_at` has passed, and the key that `gateway_api_key.rotated` names |
| `keyLock`, `keyPc`, `keyOp` | the holder of a key's row, and how far a connection is with which request |
| `Insert`, `LockRow`, `CommitKey`, `FailKey` | `createGatewayApiKey`, the `FOR UPDATE` of `rotateGatewayApiKey` or the `UPDATE` of `revokeGatewayApiKey`, `COMMIT`, `ROLLBACK` |
| `Resolves` | the verifier's `SELECT` |

`KeyBook` is the promise: issue, replace and revoke happen at one instant, a
key that is replaced or revoked stays so, and none has two successors.

### Connectors (control-api, `storage/repository.ts`)

| TLA+ | code |
|---|---|
| `state`, `overdue`, `active`, `revoked`, `links` | `connector_oauth_states` and their expiry, `connector_connections`, the audit events |
| `stateLock`, `linkPc`, `linkOp`, `inTime` | the holder of a state's row; a callback; whether the state had not expired at its `BEGIN`, which is what `NOW()` is |
| `StartOAuth`, `BeginCallback`, `LockState`, `Complete`, `Revoke` | `startConnectorOAuth`, the statements of `completeConnectorOAuth`, `revokeConnectorConnection` |

`ConnectionBook` is the promise: a state that was handed out is used up by the
one connection it becomes, for a callback that came before it expired, what is
revoked stays revoked, and each of these steps is in the trail. `Connectors`
implements it with the callbacks under way that came in time as `due`.

### SignIn (control-api `auth/sso.service.ts`, desktop `app/event-handlers.ts`)

| TLA+ | code |
|---|---|
| `flows` | `SSOService.flows`, lost with the process and forgotten by the cleanup (`Forget`) |
| `mode`, `stage`, `attempts`, `session` | the screen, how far `handleSSOLogin` of an attempt is, its counter, and the session the application shows |
| `polls` | for every attempt the requests under way and the answers under way |
| `Tick`, `Poll`, `Lose` | the timer fires, the control API looks the flow up (a completed one is deleted with it), a request or an answer is lost |
| `SignedIn`, `NotYet`, `Decline` | the rest of the timer's callback, whichever answer came; a lost one throws past all of it |
| `Leave`, `Toggle` | the handlers of the screen, which stop no timer |

### PolicyEvaluation (`packages/policy-runtime`)

| TLA+ | code |
|---|---|
| `snapshot`, `ctx` | the enabled rules as `compileSnapshot` sorts them, and the evaluation context |
| `clock`, `Tick` | UTC minute and day, which may move while a decision is made |
| `Look` | one rule of the first pass, with the conditions of `matches` and the time range it reads the clock for |
| `Decide`, `RefuseScope` | the strongest effect, the entity types to tokenize; a snapshot of another organization or module |

### PayloadTokens (gateway, `sanitizers/payload-sanitizer.ts`)

| TLA+ | code |
|---|---|
| `texts`, `out` | the strings of a payload, before and after; the walk over the JSON is their order |
| `reported`, `found` (`Normalize`, `Accepts`) | `normalizeDetections`: the reports in the order of its sort, of which what is empty or overlaps an accepted one is dropped. The accepted ones are a set, since no two of them start at one place |
| `TokenizePayload` | `tokenizePayload` is called with the types to tokenize (`allowed`) |
| `at`, `left` (`Tokenize`, `Skip`, `Advance`) | its loops: the string it is at and the reports of it still to come, the last one first |
| `mapping`, `indices`, `Index` | the mapping as inserted, and the next free number of a type |
| `back`, `due`, `seen` (`Echo`, `Replace`, `NextEntry`) | `reversePayload`: the strings of the answer, the entry `reduce` is at, and how far `replaceAll` has come with it |
| `Replacement` | what `replaceAll` puts for a token, with its reading of `$&` |

### AgentOrchestrator (desktop-shell, `agents/`)

| TLA+ | code |
|---|---|
| `active`, `shown` | `activePlan`: the session it was created for, and the session whose tasks it lists (a late run writes its own into it) |
| `phase`, `begun`, `done`, `state` | how far a call of `orchestrate()` is: started tasks, collected results, and each task |
| `locks` | `FileOwnershipService.locks`: path -> role and session |
| `Orchestrate`, `Cancel`, `Finish` | `orchestrate()` up to its first await, `cancel()`, the `finally` block |
| `StartTask`, `RefuseTask`, `TaskSettles`, `TaskThrows` | `executeTask()` up to and after its await |
| `BatchEnds` | what `executeParallel` and `executeSequential` do when the results are in |

JavaScript runs to the next await, so an action is what lies between two
awaits; the starts of a batch are separate steps, but `Quiet` lets nothing else
move between them. The code compares the role of a lock's owner and not its
session (`Available`), `cancel()` does not stop the run, and `finally` clears
whatever plan is active: all of this is in the model as it is in the code.
`MCAgentOrchestrator` has the code's pipelines and default paths. External: the
runner, which answers or throws. Left out: `rewindTo` and `teamSync` (nothing
in the application calls the one or passes the other), the timer that only
refreshes what is shown.

### KanbanBoard (desktop-shell, `kanban/`)

| TLA+ | code |
|---|---|
| `column` | `KanbanService.tasks`, of which only the column decides anything |
| `saves`, `savedBoard` | the `setItem` calls under way, in the order they were made and each with the whole board it was given, and the board in the store |
| `plan` | the hand-off whose plan the orchestrator has |
| `handoffPc`, `task` | a call of `sendToAgents`, and its card |
| `SendToAgents`, `AcceptCard`, `Refuse`, `Return` | `sendToAgents` up to its first await, the orchestrator's answer, its end |
| `LandBoard`, `DropBoard` | a write reaches the store, in any order, or fails; its caller goes on or throws |
| `ReopenBoard` | the program is closed and opened: `load()` |

`disturbed` and `stale` are histories: the hand-offs whose card somebody else
moved, and whether the last write was overtaken or failed.

### PhantomScheduler (desktop-shell, `phantom/`)

| TLA+ | code |
|---|---|
| `activeSession`, `status`, `tasks`, `taskState` | the session, its status, its tasks and theirs |
| `loopPc`, `work` | the loop a session started, and the task it executes |
| `Take`, `Sleep`, `Leave` | one look of `runQueue`, which asks for the session that is active now |
| `Built`, `Broken` | `executeTask` after its awaits |

### AuditSync (desktop-shell, `audit.service.ts`)

| TLA+ | code |
|---|---|
| `events`, `stored`, `writes` | the log, newest first, cut at `LogSize`; the store; the writes under way |
| `todo` (`Pending`, `Batches`) | the batches a dispatch has still to send, cut from what is pending before its first await |
| `Record`, `DispatchForPlan`, `Flush`, `Succeed`, `Throw`, `Restart` | `record`, `dispatchForPlan`, `flushPendingEvents`, the two ways a dispatch goes on, `load` |
| `accepted`, `ServerTakes` | the control API, whose answer may be lost |

### FastApply (desktop-shell, `fast-apply/`)

| TLA+ | code |
|---|---|
| `disk` | the file; whether a write that failed changed it is left open |
| `original`, `applyPc`, `review` | the `originalContent` of a change, how far its `applyChange` is, the status of its snapshot |
| `reverts` | calls of `revertFile` before and after their write |
| `Read`, `Write`, `Register`; `Accept`; `Revert`, `Restore`, `Settle` | `applyChange`, `acceptFile` and `revertFile`, from await to await |

### ChatTurns (desktop-shell, `app/event-handlers.ts`, `chat/`)

| TLA+ | code |
|---|---|
| `chatRunning`, `active`, `shown` | `chatOrchestratorRunning`, `activeChatSession`, `activeChatMessages` |
| `stored` | the messages of each session in the database |
| `turn` | `runChatOrchestrator` of a prompt: typed, asking for a suggestion, suggested, prompted, called, over |
| `appends`, `loads` | calls of `appendMessage` and `loadSession` under way, with what they captured or read |
| `Suggest`, `Continue` | the early return, and `continueSuggestedSkill` |

### WorkflowRun (`packages/agent-canvas`)

| TLA+ | code |
|---|---|
| `edges`, `degree`, `queue`, `order` | the graph, whose edges have ids, so that there may be several between two nodes, and `topological_sort` |
| `step`, `node`, `run` (`InOrder`) | the nodes of the step that `build_steps` gives, in topological order, the one being run, the status |
| `strategy`, `attempt`, `Enter`, `NodeSucceeds`, `TryAgain`, `Leave`, `Substitute`, `Break` | the `ErrorStrategy` of a node, and the loop of `execute` |
| `cancel` | the flag the caller holds |

### McpServers (`packages/mcp-client`)

| TLA+ | code |
|---|---|
| `registered`, `running`, `tools` | `ServerRegistry`, `ServerLifecycle.running`, `ToolRegistry` (for tools, resources and prompts, which are handled alike) |
| `op`, `callPc` | a call, what it does to which server, and how far it is |
| `ReadsTools`, `ReadsRunning`, `WritesRunning` | who holds which lock follows from `callPc` |
| `Begin` | a command of the desktop, or the monitor's ping or restart beside it |

### PolicySnapshotCache (gateway, `policy/policy-snapshot-cache.ts`)

| TLA+ | code |
|---|---|
| `phase`, `timer` | `start()` before and after its await, `close()`, and `setInterval` |
| `fetch`, `answer`, `delay` | calls of `refresh()` under way, what they bring, since when |
| `cached`, `age` | the entry and its `refreshedAt` |
| `published`, `gone` | the control API: its current version, and since when the earlier ones are superseded |
| `Refresh`, `Answer`, `Arrive`, `Fail` | the timer fires, the control API reads its database, the answer is stored, or anything goes wrong and the cache is left alone |
| `Served` | `get()` |

Organizations share nothing in the cache, so one is modelled. Time passes in
ticks; `RefreshEvery` and `MaxAge` are `POLICY_SNAPSHOT_REFRESH_MS` and
`POLICY_SNAPSHOT_MAX_AGE_MS` (30 s and 120 s by default). The code gives
`fetch` no timeout; `MaxDelay` is the HTTP client's.

### ProxyRequests (gateway, `routes/proxy.ts` and what it calls)

| TLA+ | code |
|---|---|
| `stage` | the await a request is at: `store`, `send`, `pause`, `take`, `audit` |
| `policy`, `tokens` | the snapshot the request was evaluated with (or none), and whether anything was tokenized |
| `sent`, `clock`, `handled` | the attempts of `UndiciUpstreamClient.forward`, the timer of the attempt or pause, and what the provider did with them |
| `kept`, `restored` | the mapping's remaining TTL in Redis, and what `take` (a GETDEL) found |
| `trail`, `told` | the row in `platform_audit_events`, and what the client was told |
| `Put`, `Take`, `Record`, each with `...Throws` | the storage calls; a call that throws may have had its effect |
| `RecordIsRefused` | the insert with the empty policy id of a request that had no snapshot: the column is a UUID |
| `Handle` | the provider, which may get to an attempt after it was given up |
| `Crash` | the gateway process dies; Redis and the provider do not |

`Effect` distinguishes only whether the policy blocks, as the handler does: a
request for which the policy requires approval goes the same way as an allowed
one. Contents are not modelled, only whether there is anything to tokenize.
`Ttl` is `TOKEN_MAPPING_TTL_SECONDS`; `Timeout`, `RetryMax` and `Backoff` are the
defaults in `upstream-client.ts`, which the handler does not override. A
storage call is over within the tick it began in. The in-memory mapping store
(tests) and the no-op audit sink (`ENABLE_AUDIT_LOG=false`) are not modelled.

`AuditedAnswers` is the promise to the organization: what its policy blocks never
reaches a provider; the answer to a request and its event in the trail are one
step, in which what a provider said is recorded as forwarded and a refusal as
blocked; with an error the trail may be silent, but does not lie.

<a name="the-runs"></a>
## 3. The runs: bounds, fairness, results

Twelve runs, four of which pass, each of a gallery; the other eight are in
[section 5](#findings). States are distinct states; times are of two workers.

| run | parts | checks | states |
|---|---|---|---|
| `control_api_checked` (`MCControlApi`) | ledger, registry's bindings | `CounterIsExact`, `NoCircularWait`, `ImplementsAtomicLedger`, `EveryRequestEnds`, `EveryTransactionEnds` | 539 040, in 1:35 |
| `safety_checked` (`MCSafety`) | registry's versions, members, keys, connectors, audit log, policy decision, tokens, workflow, file | `BoundIsServed`, `ImplementsPolicyBook`, `CodeAdmitsOne`, `OwnerOutlivesDisable`, `ImplementsKeyBook`, `ImplementsConnectionBook`, `SyncedIsAccepted`, `CoveredIsProtected`, `EchoIsRestored`, `DetectedIsHidden`, `RefusedIffCyclic`, `DependentsComeAfter`, `ReviewMatchesDisk` | 902 219, in 1:20 |
| `desktop_checked` (`MCDesktop`) | agents, board, phantom, MCP | `LocksAreOwned`, `ExclusivePaths`, `SessionIsActive`, `DefaultsNeverRefused`, `EverySessionEnds`, `AtWorkIsShown`, `StoredCatchesUp`, `HandoffReachesReview`, `ExecutedOnce`, `QueuedIsServed`, `ToolsMatchRunning`, `EveryCallEnds` | 375 290, in 1:50 |
| `late_answers_checked` (`MCLateAnswers`) | cache, gateway requests, sign-in, chat | `ServedIsRecent`, `NoRegress`, `CurrentIsServed`, `AnswersAreAudited`, `ImplementsAuditedAnswers`, `RestoredInTime`, `EveryRequestEnds`, `WaitEnds`, `ShownIsStored`, `EveryTurnEnds` | 750 153, in 2:30 |

The type invariants, and the properties `OneInsertPerKey`, `AuditedOnce`,
`AdmittedStillFits`, `EntriesAreFinal`, `GrowsWithinCap`, `DayKeepsALimit`,
`VersionNumbersAreFresh`, `OnePublished`, `TrailAccounts`, the registry's
`NoCircularWait`, `NothingOutlivesSession`, `BatchesInOrder`, `OneUntilCancelled`,
`NothingIsLeft`, `TrailIsTrue`, `UnavailableHasACause`, `TokensAreDistinct`,
`ResolvedIsCurrent`, `StateConnectsOnce`, `WaitingIsServed`, `LocalStaysLocal`,
`NoCircularCalls`, `OnePrompt`, `OnlySuggestionsBlock` and `SuggestionIsNeverSent`
are in no run: they are proved for every instance ([section 4](#what-is-proved)).

### What they show, and why the bounds are enough

**Credit ledger.** Two connections, two keys, amounts and limits 0 and 1, two
days. However retries, grants, refusals, rollbacks, cap changes and midnight
interleave, all of it is what `AtomicLedger` does in one instant per request
(`ImplementsAtomicLedger`); the counter equals the debits of the row's date as
long as that date has not gone backwards (`CounterIsExact`; what happens
otherwise is `credit_midnight`); no requests wait for each other's rows and keys
in a circle (`NoCircularWait`), and every request ends. Two connections
are what a race needs; with two keys, two debits can collide with and without
sharing one; a limit of one lets one debit in and keeps the second out, and an
owner may lower it to zero in between; an amount of zero is a free model; the
second day gives one midnight.

**Policy registry.** For versions: two connections, one set of three versions,
two modules that may be bound to; three versions are a published one, one that
replaces it, and one created meanwhile. The transactions are serial
(`ImplementsPolicyBook`), and a module that was bound always has exactly one
snapshot (`BoundIsServed`). For bindings: two sets of one module, one version
each. Since every transaction takes a set and then a binding, none waits in a
circle (`EveryTransactionEnds`).

**Members.** Two requests, two users, one organization, one code. A code lets
in one user however many devices send it at once, and none after it expired
(`CodeAdmitsOne`). If nobody wrote between a request's count and its `COMMIT`,
disabling leaves an owner, whatever sequence of additions, demotions, removals
and disablings came before (`OwnerOutlivesDisable`); without that hypothesis it
does not, which is the run `owners`. Two users are the fewest of whom one can
be counted for the other.

**Gateway keys.** Two connections, three keys: rotating beside rotating,
revoking and expiry is as if each happened at once (`ImplementsKeyBook`). Three
keys are an old one and the two successors that two rotations want to give it.

**Connectors.** Two callbacks, two states: a state becomes one connection, and
only the callback that consumed it connects, also after the connection was
revoked and when the state expires while a transaction waits: all of it is what
`ConnectionBook` does in one instant per request (`ImplementsConnectionBook`).

**Single sign-on.** Two attempts, a limit of two polls, two polls of an attempt
under way at once (the code: a poll every two seconds, a limit of 150). The
waiting screen does not stay for ever, although a lost poll skips the
comparison that ends the attempt and may be the very one that should have
(`WaitEnds`: the comparison is `>=`, and the counter goes on). The second
attempt meets late answers to the first.

**Policy evaluation.** Every snapshot of two rules of all effects, with and
without types, windows over midnight or of one day; a day of three minutes, a
week of two days, and one tick anywhere in the decision. The decision is at
least as strict as every rule that covers the request all the time it takes,
and what is let through with tokens has every type replaced that such a rule
names (`CoveredIsProtected`). A rule that covers the request for only a part of
the time may be missed: see [what was noted](#findings) of adjoining windows.

**Tokens.** Two strings of three symbols, among them tokens the user typed, the
tokens to come, and the `$&` that `replaceAll` interprets; every set of two
reports of a string, overlapping, empty or apart. Nothing of an accepted report
is sent (`DetectedIsHidden`), and a string that comes back as it was sent is
restored, but for two cases the property names (`EchoIsRestored`). Two strings
are what one mapping is shared by.

**Workflow.** Every directed graph of three nodes, loops included, with single
and with double edges, and every way in which nodes fail and are retried,
skipped, replaced or end the execution. It is refused exactly if it has a cycle
(`RefusedIffCyclic`); nothing runs before all it depends on, nor after a node
of an earlier step has failed the execution (`DependentsComeAfter`).

**Agent orchestrator.** Two sessions, the code's pipelines and default paths,
one cancel. A lock belongs to a running task that wants the path,
whatever is cancelled or thrown (`LocksAreOwned`); every session returns
(`EverySessionEnds`). Until the first
cancel, no two agents share a file (`ExclusivePaths`), the plan on display is
the running session's (`SessionIsActive`), and default paths are never refused
(`DefaultsNeverRefused`). The hypothesis "until the first cancel" is necessary:
`agents_cancel` is what happens afterwards. Two sessions, one of them cancelled,
are the smallest case in which a forgotten run meets a new one. The target
paths are the code's defaults, one shared file, and that file with a protected
one.

**Kanban.** Two hand-offs, two cards, new changes begun while one write at most
is under way (the continuations add more), restarts. While agents work on a
card that nobody else touched it is shown with them (`AtWorkIsShown`); a card
that was handed off comes to review although the orchestrator refuses, the
agents throw or the store fails (`HandoffReachesReview`); when nothing is under
way the store holds the board, unless a write failed or was overtaken
(`StoredCatchesUp`).

**Phantom scheduler.** Two sessions, two tasks. A loop that slept while its
session was replaced works beside the new one; no task is executed twice
(`ExecutedOnce`), none is left waiting while its session goes on
(`QueuedIsServed`).

**MCP client.** Three calls, one server. Locks are per registry and not per
server, so that a second server adds nothing to how calls wait for each other.
Once no call is at work on a server, its tools are listed exactly when it runs,
unless two changes of it overlapped (`ToolsMatchRunning`), and no calls wait for
each other for ever (`EveryCallEnds`). Three calls are the holder of `running`
in `stop_all`, one that waits for it, and one with a registry in hand.

**Audit log.** Three events, two dispatches, a log of two, batches of one (250
and 100 in the code), two writes under way. What is shown as synced, now or
after a restart, is at the server (`SyncedIsAccepted`). Three events make one
fall out of the log while its batch is under way.

**Fast apply.** Two changes of one file, two reverts of one at once. The file is
what the review says once nothing is under way and the change was the last to
be written (`ReviewMatchesDisk`).

**Chat.** Two sessions, two prompts, two appends and one load under way. As long
as appends and loads do not overlap, what is shown is what is stored
(`ShownIsStored`); a prompt that left the input is answered or fails, and frees
the chat (`EveryTurnEnds`).

**Snapshot cache.** Period 1, age 2, delay 2, two versions, three fetches: with
a delay of two periods three fetches overlap and overtake each other, and a
late one can replace a newer policy and look fresh. Even so, what is served was
superseded at most `MaxAge + MaxDelay` ago (`ServedIsRecent`). The cache goes
back only if a fetch may take a period or longer, and then only to the answer
of one that was under way for at least as long as the newer one was cached
(`NoRegress`). If the control API is reachable again and again, the current
policy is served again and again (`CurrentIsServed`). Two versions
are an old and a new one.

**Gateway requests.** Two requests, one retry, a TTL of 4, timeout and pause 1.
What a client is told other than an error is in the trail
(`AnswersAreAudited`); however storage fails, the process dies and attempts come
late, the gateway keeps the promise of `AuditedAnswers`
(`ImplementsAuditedAnswers`); with a TTL beyond all
attempts and pauses every answer is restored (`RestoredInTime`: here the
attempts take 3 ticks at most and the TTL is 4; in the code they take at most
90.6 s, the handler leaving the client its 30 s and two retries, and the TTL is
a setting, 300 s by default, that nothing compares with them); every request
ends and takes its mapping along, if only by its TTL (`EveryRequestEnds`). Two
requests share the crash and the clock and nothing else; one retry is an attempt
that can be late and one that is the last.

### Fairness

| assumption | why the code may rely on it |
|---|---|
| `CreditLedger`, `PolicyRegistry`: strong fairness of `Proceed`, per connection | PostgreSQL queues waiters for a row or for a pending key in order, so one whose wait is over again and again is not passed over for ever; a connection that runs nothing has no duty to begin, and failing is never owed |
| `AgentOrchestrator`: weak fairness of each continuation | the event loop runs what is ready; the runner's HTTP calls answer or throw. Calling `orchestrate()` or `cancel()` is never owed |
| `KanbanBoard`: weak fairness of each hand-off | the store answers or throws, the orchestrator returns (`EverySessionEnds`) |
| `PhantomScheduler`: weak fairness of each loop | timers fire; what a task awaits comes to an end. Starting and ending sessions is never owed |
| `McpServers`: weak fairness of each call | tasks are scheduled and a lock that is free is given; a server answers or closes the line, since the code waits for it without a timeout |
| `PolicySnapshotCache`: weak fairness of time, the timer, `start()`'s continuation, and the end of each fetch | timers; the HTTP client gives up. That the control API answers is not assumed: it is the hypothesis `Reachable` of `CurrentIsServed` |
| `ProxyRequests`: weak fairness of time and of each request's next step | an attempt is aborted by its own timer, a storage call answers or throws. The provider need not handle anything |
| `SignIn`: weak fairness of each attempt's next step, and of `Settle` | the timer fires, a request that is not lost is answered; from some time on nothing is lost, before which a screen may wait. Neither the user nor the identity provider owes anything |
| `ChatTurns`: weak fairness of each turn | what a turn awaits comes or fails. The developer owes nothing |

A gallery has, for each number, one fairness condition for the disjunction of
what that number stands for in each part. Only one part moves in a behaviour,
so that it is the condition of that part there. No liveness property is checked
under symmetry. Deadlock is checked in every run except `desktop_checked` and
those of the orchestrator, which stops when all sessions have ended and no other
is started, as a board without cards to move and calls that are all done may.
Parts that come to an end in `MCSafety` stutter there, and only there.

<a name="what-is-proved"></a>
## 4. What is proved

For all values of the constants that satisfy the named assumptions, and without
fairness. Each proof module has the same plan: the inductive invariant holds
initially, each action preserves it (a lemma for each action), `Invariance`, and
then a theorem for each property. `PROJECT.json` lists all but the type
theorems of the smaller parts.

| theorem | statement |
|---|---|
| `CreditLedgerProofs!TypeCorrect`, `KeysAreInsertedOnce`, `EveryEntryIsAudited`, `AdmissionIsStable`, `CounterIsTheDaysDebits` | `Spec => []TypeOK`, `[]OneInsertPerKey`, `[]AuditedOnce`, `[]AdmittedStillFits`, `[]CounterIsExact` |
| `LedgerIsAppendOnly`, `CounterStaysWithinCap` | `Spec => EntriesAreFinal`, `GrowsWithinCap` |
| `CapHoldsUntilDateGoesBack`, `RequestsNeverDeadlock` | `Spec => []DayKeepsALimit`, `[]NoCircularWait` |
| `Refinement` | `Spec => ImplementsAtomicLedger` |
| `PolicyRegistryProofs!TypeCorrect`, `NumbersAreFresh`, `AtMostOnePublished`, `BoundAlwaysServed`, `TrailAccountsForAll`, `TransactionsNeverDeadlock` | `Spec => []TypeOK`, `[]VersionNumbersAreFresh`, `[]OnePublished`, `[]BoundIsServed`, `[]TrailAccounts`, `[]NoCircularWait` |
| `Refinement` | `Spec => ImplementsPolicyBook` |
| `AgentOrchestratorProofs!TypeCorrect`, `NoLockLeaks`, `PathsAreExclusive`, `SessionsWaitForTasks`, `PlanIsOfSession`, `BatchOrder`, `OneSessionUntilCancelled` | `Spec => []TypeOK`, `[]LocksAreOwned`, `[]ExclusivePaths`, `[]NothingOutlivesSession`, `[]SessionIsActive`, `[]BatchesInOrder`, `[]OneUntilCancelled` |
| `DefaultsSuffice` | `Spec => []DefaultsNeverRefused`, if the default paths within each batch are apart |
| `PolicySnapshotCacheProofs!TypeCorrect`, `StalenessIsBounded`, `NeverGoesBack` | `Spec => []TypeOK`, `[]ServedIsRecent`, `NoRegress` |
| `ProxyRequestsProofs!TypeCorrect`, `FailsClosed`, `TrailIsReliable`, `TtlSuffices`, `MappingsAreConsumed`, `UnavailableIsExplained` | `RequestsSpec => []RequestsTypeOK`, `[]AnswersAreAudited`, `[]TrailIsTrue`, `[]RestoredInTime`, `[]NothingIsLeft`, `[]UnavailableHasACause` |
| `KeepsAuditedAnswers` | `RequestsSpec => ImplementsAuditedAnswers` |
| `PayloadTypeCorrect`, `DetectionsAreHidden`, `EchoesAreRestored`, `TokensAreGivenOnce` | `PayloadSpec => []PayloadTypeOK`, `[]DetectedIsHidden`, `[]EchoIsRestored`, `[]TokensAreDistinct` |
| `ControlApiProofs!MembersTypeCorrect`, `CodesAdmitOne`, `OwnersOutliveDisable` | `MembersSpec => []MembersTypeOK`, `[]CodeAdmitsOne`, `OwnerOutlivesDisable` |
| `KeysTypeCorrect`, `ResolvedKeysAreCurrent`, `KeysRefineBook` | `KeysSpec => []KeysTypeOK`, `[]ResolvedIsCurrent`, `ImplementsKeyBook` |
| `LinksTypeCorrect`, `StatesConnectOnce`, `LinksRefineBook` | `LinksSpec => []LinksTypeOK`, `[]StateConnectsOnce`, `ImplementsConnectionBook` |
| `SignInTypeCorrect`, `WaitingIsAlwaysServed` | `Spec => []TypeOK`, `[]WaitingIsServed` (of `SignIn`), if its bounds are natural numbers |
| `DesktopProofs!FileTypeCorrect`, `ReviewsMatchDisk` | `FileSpec => []FileTypeOK`, `[]ReviewMatchesDisk` |
| `PhantomTypeCorrect`, `TasksExecuteOnce` | `PhantomSpec => []PhantomTypeOK`, `[]ExecutedOnce` |
| `AuditTypeCorrect`, `SyncedEventsAreAccepted`, `LocalEventsStayLocal` | `AuditSpec => []AuditTypeOK`, `[]SyncedIsAccepted`, `[]LocalStaysLocal` |
| `BoardTypeCorrect`, `WorkIsShown`, `StoreCatchesUp` | `BoardSpec => []BoardTypeOK`, `[]AtWorkIsShown`, `[]StoredCatchesUp` |
| `ExecutionProofs!DecisionTypeCorrect`, `CoveredRequestsAreProtected` | `DecisionSpec => []DecisionTypeOK`, `[]CoveredIsProtected` |
| `FlowTypeCorrect`, `CyclesAreRefused`, `DependenciesAreRespected` | `FlowSpec => []FlowTypeOK`, `[]RefusedIffCyclic`, `[]DependentsComeAfter` |
| `McpTypeCorrect`, `ToolsMatch`, `CallsNeverDeadlock` | `McpSpec => []McpTypeOK`, `[]ToolsMatchRunning`, `[]NoCircularCalls` |
| `ChatTypeCorrect`, `ShownMessagesAreStored`, `PromptsGoOneAtATime` | `ChatSpec => []ChatTypeOK`, `[]ShownIsStored`, `[]OnePrompt` |
| `OnlyContinuingBlocks`, `ContinuingNeverSends` | `ChatSpec => OnlySuggestionsBlock`, `SuggestionIsNeverSent` |

Those that are in no run say: a key is inserted by one transaction at a time
and its entry is never replaced (`OneInsertPerKey`, `EntriesAreFinal`); the
trail has one event for each entry (`AuditedOnce`); an admitted debit still fits
when it is counted, since the row lock is held from the comparison to the
`COMMIT` (`AdmittedStillFits`), so the counter never grows past the limit in
force (`GrowsWithinCap`); `MAX(version) + 1` is never taken and a second
published version never appears, not even in the view of a statement half-way,
so that neither unique index is ever what stops a caller
(`VersionNumbersAreFresh`, `OnePublished`); the trail has an event for each row
(`TrailAccounts`); no agent outlives the report of its session and none begins
before the earlier batches are settled (`NothingOutlivesSession`,
`BatchesInOrder`); no mapping is left once the client has an answer other than
the gateway's own error (`NothingIsLeft`); a key that the gateway resolves has
no successor (`ResolvedIsCurrent`); a token is given out once, and never one that
the user typed in the string it is put into (`TokensAreDistinct`); a request that
the trail calls blocked is never handled by the provider, and one that it calls
forwarded was (`TrailIsTrue`); a state becomes one connection (`StateConnectsOnce`);
transactions of the registry and calls of the MCP client never wait for each other
in a circle (`NoCircularWait`, `NoCircularCalls`); no second prompt is under way
(`OnePrompt`); the waiting screen has an attempt to wait for (`WaitingIsServed`);
what was recorded under a plan that is not synchronized never reaches the server
(`LocalStaysLocal`).

Four theorems say of a disagreement of [section 5](#findings) that what its run
shows is the only way to it. The debits of a day stay within some limit as long as
the row's date has not gone backwards (`DayKeepsALimit`, beside `credit_midnight`).
There is one session until one is cancelled (`OneUntilCancelled`, `agents_cancel`).
A client that is told the audit storage is unavailable had no snapshot, if the
storage never failed (`UnavailableHasACause`, `proxy_unavailable`). Nothing but a
continued suggestion blocks the chat, and one always does and never sends its prompt
(`OnlySuggestionsBlock`, `SuggestionIsNeverSent`, `chat_suggestion`).

### The assumptions

| assumption | why the code justifies it |
|---|---|
| `NoRequest`, `NoKey`, `NoCallback`, `NoHandoff`, `NoNode` and the like are none of what they stand apart from | a null is no identifier |
| `CodesAssumption`: a pairing code is of one organization | `pairing_codes.organization_id` is NOT NULL and never updated |
| `RevertsAssumption`, `SizesAssumption`, `DecisionAssumption`: sizes and numbers are natural, a batch, a day and a week not empty; a window begins and ends with a number of minutes | constants of the code; the schema of a time range asks for two digits twice and admits `25:61`: what a window that is no piece of a day covers nobody says, so the property speaks of those that are (`InArc`) |
| `FlowAssumption`: a graph is finite, and its edges go from node to node | `add_edge` refuses an edge whose ends are not nodes |
| `TextsAssumption`: what is not a token is told apart by the place it stands at in its text, and detectors name types and places | it names symbols and constrains no text: `Letters` may then speak of a piece of a text, and not only of what is written there |
| `ProxyAssumption`: each attempt may begin when the earlier ones, with their timeouts and pauses, are over | the loop of `forward` |
| `MaxAttempts` and `MaxOpen` of `SignIn` are natural numbers (hypotheses of its two theorems) | the code's 150 polls, and the model's bound of polls under way |

The remaining ones are of the same kinds, and are stated where their constants
are declared.

### The arguments

**Credit ledger.** `AdmittedStillFits` speaks of one moment, and says nothing of
how the draft it constrains came about. `LockHeld` (exactly the charging debits
past their check hold the lock) and `DraftIsExact` (the lock holder's version of
the row is the committed one, rolled over and, once counted, charged) make it
inductive; `Phases` links the statement a connection is at to what it has
written. The refinement needs `DraftIsExact` too: at `Commit` the draft is what
`AtomicLedger` computes in one step from the committed row. Every other step
leaves the committed state, or is the `StartDay` or `SetLimit` of `UpdateCapRow`.

**Policy registry.** `Views` describes what a transaction sees of its set, at
each of its statements, in terms of the committed versions, which the row lock
(`LockHeld`) keeps still; `Dense` says that the committed numbers are 1 .. n.
Together they make `MAX + 1` the number that `PolicyBook` gives, and turn
`Commit` into one step of it. `BoundIsServed` is inductive only with them: a
publication demotes the bound version in its own view before it promotes.

**Agent orchestrator.** The counters `begun` and `done` of a session are related
to the states of its tasks (`Progress`, `TasksFollow`), and, until the first
cancel, the locks to the target paths of the running tasks (`LocksAreKept`).
`OneStarts` expresses that a batch's starts are not interrupted. For
`BatchesInOrder` the proof needs arithmetic on `\div`, in lemmas of its own.
`DefaultsSuffice` has the condition as a hypothesis, because it is a fact about
the constants and not about the orchestrator. `desktop_checked` has the code's
paths.

**Snapshot cache.** `AnswersAreRecent`: an answer under way was superseded no
longer ago than it has been under way. Storing it sets the age to zero, so
`CachedIsRecent` bounds the staleness by the age plus `MaxDelay`. For
`NoRegress`, `InOrder`: with `MaxDelay < RefreshEvery` the timer cannot fire
while a fetch is under way, so that none is overtaken; and in any case
`OvertakenIsOld`: an answer older than what is cached was read before that was
stored, and has been on its way at least as long.

**Gateway requests.** `MappingIsThere` adds up, for a request at any await, the
time its mapping has been in Redis: at most `Begun[n]` when attempt `n` begins.
`Begun` is a constant with an assumption (each attempt may begin when the
earlier ones, with their timeouts and pauses, are over), not the sum itself: the
pauses are `BackoffUnit * 2^(n-1)`, and sums and powers would need induction.
`MCProxyRequests` and `MCLateAnswers` define it for their instances, and TLC
evaluates the assumption.

**Audited answers.** `AuditedStep` maps the steps that record and answer to one step
of the promise (`AnswerIsPromised`), the provider's to `Reach`, the evaluation to
`Block`, and the others to none. It needs that a blocked request was never sent
(`HandledWereSent`), that a new one has no policy and no mapping yet and that one
under way has been told nothing (`StagesAgree`).

**Counter of the ledger.** What was spent on a day is the number of the credits of
its debits, each credit an element (`CreditsOn`): a cardinality needs no sum over a
set, and grows by the credits of the entry that `Commit` adds. That the counter
starts from zero on a new day is right because, as long as the row's date has not
gone backwards, no debit is dated later than it (`CountedUpToDate`).

**A day's limit.** An admitted debit fits within the limit it was compared with, and
that is some limit an owner may set; the counter is the sum of the day's debits as
long as the row's date has not gone backwards. So the day on the row keeps a limit
when its counter does, and an earlier day when it was left.

**Waiting.** That nobody waits in a circle is said of every set of requests: one of
them waits for none of them. It is the one that holds what is taken last. In the
ledger, who has inserted a key has nothing left to wait for; if nobody of the set
has, nobody of it waits for a key, and the holder of the row, which waits for
nothing else, is the one. In the registry it is who has written a binding
(`BindLockIsLast`), else who holds a set; in the MCP client who looks at a registry,
closes a server or waits for its answer, else `stop_all`, which holds `running` until
the registries are free.

**Tokens.** Since the last report comes first, those still to come end before
whatever was replaced (`InTurn`, `AcceptedAreApart`): up to the end of each of
them the string is still the text, and what follows comes from what followed
(`StartIsUntouched`). Hence the offsets of a report, which are those of the text,
are right in the string as it is by then, its letters are gone, and later
replacements bring none back (`PassedAreHidden`). That there is a next number at
all is the pigeonhole principle: among one more number than there are symbols and
entries one is free (`IndexIsFree`).

**Echo.** `SentStandsFor`: the string that is sent comes with a map of its places
to places of the text (`StandsFor`): each symbol stands for the next one, or is the
token of an entry whose original is the piece between two places. Replacing a
token by its original keeps such a map (`OriginalStands`), and brings the token
not back, because the original is a piece of a text in which the user did not type
it (`SeenIsReplaced`). So when `replaceAll` has come to the end, the entry can be
left out of those the map may use (`EntriesChange`), and when none is left, the
map is the identity and the string the text (`NothingToReplace`).

**Members and codes.** A request that carries a code has the code it made used
(`CodesAreSpent`), and no two carry or have carried one. For `OwnerOutlivesDisable`
it is enough to follow what a request counted (`CountIsCurrent`): as long as
nothing was written since, the other owner it saw is there (an `outdated` request
promises nothing).

**Keys.** `KeysRefineBook` maps each `COMMIT` to one step of the book and every
other step to none. It needs that a row is locked by who is about to commit its
revocation (`LocksAreHeld`) and is valid until then (`LockedIsValid`), that a key
to come is nobody else's (`NewIsFresh`), and that a key with an heir is revoked
(`UnusedHasNoHeir`).

**Connectors.** `LockedIsOpen`: the holder of a state's row found it open, and it
stays so until the `COMMIT`, because the consuming statement needs the same lock.
It also came in time, so that `Complete` is the book's `Connect`; the state may
have expired since, which `due` does not forget.

**Single sign-on.** The screen begins to wait in the step in which its attempt
begins (`Submit`), and an attempt leaves the stages that are waited for only together
with the screen: whatever ends one, late answers to another included, ends the wait.

**Fast apply.** `LastIsOnDisk` follows the write that reached the file last,
through all that is accepted or reverted after it; the bound of the reverts is part
of the invariant since it appears in the guards.

**Phantom scheduler.** A task that is being executed has one loop that works on it,
and a loop takes only what is queued (`TakenIsUnderway`, `WorkIsTaken`).

**Audit log.** What the server took is what a dispatch is about to mark
(`TakenIsAccepted`), and no log, in memory, stored or on its way, names an event
that was not recorded (`LogsOK`). The batches are cut by counting the pending
events before each one. For `LocalStaysLocal` no two logs may disagree about an
event (`LocalIsApart`): otherwise a restart with an older log could bring one back
as pending that was local. A batch is cut from what is pending, so that marking it
never touches a local event.

**Kanban.** The newest write under way has the board as it is (`NewestIsBoard`),
and a hand-off whose card nobody disturbed has shown it since it was sent
(`SentIsShown`, `SharedIsDisturbed`: of two hand-offs of one card both are
disturbed).

**Policy evaluation.** The code compares the minute with the two ends of a window
in two ways, depending on whether the window passes midnight; the property speaks
of an arc of the day (`InArc`). The proof is that the two agree (modular
arithmetic in a lemma of its own), that a rule that covered the request all the
time was matched when its turn came (`HeldWasMatched`), and that the weights of the
effects order them.

**Workflow.** `DegreesAreLeft`: a node's degree is the number of edges from nodes
not yet sorted, so that it is zero exactly if none is left (`FreeAreSorted`). What
is sorted is acyclic (`SortedAreAcyclic`); when the queue is empty, each node that
is not sorted has a parent that is not either, so that those nodes are some of which each has a
parent among them (`Cyclic`), which in a finite graph is to have a cycle. The steps follow the order (`StepsAreReady`), and an end has its reason
(`EndsWithReason`).

**MCP client.** `HalfWayIsKnown`: when a server's tools and its running do not agree,
a call is between the two changes; `OneAtATime`, unless changes of it overlapped.

**Chat.** While appends and loads do not overlap there is one call at a time
(`OneCallAtATime`), and a message that is stored and not yet shown is the one that
has just landed (`ShownOrLanded`). One prompt is under way because whoever raises
the flag found it down (`OnePrompt`); from it the two action properties are read off
the steps that touch the flag.

### What is only model-checked

The liveness properties (`EveryRequestEnds`, `EveryTransactionEnds`,
`EverySessionEnds`, `HandoffReachesReview`, `QueuedIsServed`, `EveryCallEnds`,
`WaitEnds`, `EveryTurnEnds`, `CurrentIsServed`): liveness under fairness is out of
the prover's reach. Every other property of a passing run is a theorem. For four of
these, the theorem that no calls or transactions wait in a circle, or that the screen
that waits has an attempt, is the safety half of what TLC checks.

<a name="findings"></a>
## 5. Where the code disagrees with what it says

Each is a run that TLC ends with a counterexample to one property, which states
what the code, a message of it or a test says.

| run | property | what happens |
|---|---|---|
| `credit_midnight` | `DayWithinLimit`: a day's debits stay within the highest limit (`repository.ts:2691`) | a debit begins before midnight and waits for the row; another one rolls the day over; the first then writes its `CURRENT_DATE`, yesterday's, back, and the next one resets the counter once more |
| `credit_retry` | `RetryNotRefused`: a debit that adds nothing is not refused (same line) | the cap is compared before the key is looked up, so the retry of an applied debit is answered 429 |
| `agents_cancel` | `OneSessionRuns`: "Only one multi-agent session can run at a time." (`agent-orchestrator.ts:36`) | a cancelled run goes on, and its `finally` clears the plan of the session started after it: a third one is let in beside the second |
| `agents_kanban` | `BuilderRuns`: "Kanban task completed by AI Builder" (`event-handlers.ts:945`) | with the task's files as the target of every role, the architect has them and the builder of the same batch is refused; the task is still reported complete |
| `proxy_unavailable` | `UnavailableMeansDown`: "Audit storage unavailable" (`routes/proxy.ts:163`) | with no snapshot cached the event has an empty policy id, which the UUID column refuses: the provider has handled the request, the client gets 503, the trail nothing |
| `owners` | `DisableKeepsOwner`: "At least one active owner is required." (`repository.ts:2158`) | two owners are disabled at once; each transaction counts the other, no row is locked, and none is left |
| `tokens_typed` | `TokensAreNew`: "does not allocate a token already present in user content" (`sanitizer.test.ts:6`) | the token is looked for in the string being replaced in and not in the payload: one that the user typed in another string is allocated, and restored where the user had typed it |
| `chat_suggestion` | `ChatIsFree`: "Install it before sending this prompt?" (`en.json:385`) | the early return for a suggested skill keeps the flag of the turn; whichever way the dialog is answered, the turn that goes on with the prompt meets the flag and returns, and no prompt is sent any more |

These runs use small instances of their own, or a gallery restricted to the one
part; each counterexample is a finite behaviour.

### Noted while modelling

These have no run: they contradict no sentence of the repository, or concern
code that is not modelled.

*Control API.* A gateway key that is created is base64url, but the verifier
accepts hexadecimal digits, `_` and `-` only (`repository.ts:914`,
`client-api-key-verifier.ts:220`). Disabling a member in one organization
disables the user in all. Pairing a device, and a SCIM patch of the display
name, demote an owner. Invitation codes are 32 hexadecimal digits, but the route
that accepts one takes UUIDs only (`013-org-invitations-pairing.sql:12`,
`desktop.ts:756`). `getTrialStatus` may expire a trial that was restarted between
its `SELECT` and its `UPDATE`; `reminder_sent_at` is never written and
`convertTrialToPaid` never called. A retry of a usage event writes another audit
event. The handlers of jobs return a result where they fail, so that the queue's
three attempts never happen. `completeFlow` makes a flow again that was
forgotten. The setup of a second factor shows recovery codes that its
verification replaces by others.

*Gateway and policies.* `start()` waits for a fetch that has no timeout
(`policy-snapshot-cache.ts:62`). Time ranges ignore their time zone, and the
priority of a rule never changes the effect. Of two windows that adjoin, both
can be missed when the minute changes between them; a window over midnight that
is restricted to days looks at the current day. `replaceAll` interprets `$&` and
`$$` in originals (`payload-sanitizer.ts:153`); a report that overlaps an accepted
one is dropped and not merged.

*Desktop.* Logging in, registering and polling are copies in `event-handlers.ts`
(2627-2690) that never set the session of `auth.service.ts`, whose restored
session (60-63) may overwrite a login made meanwhile. Leaving the sign-in screen
does not stop the poll; a late one at the limit shows an error after a successful
sign-in, and a lost answer loses the session. The audit log is told of a missing
session at startup, which stops the timer of its synchronization
(`app-lifecycle.ts:198-200`); at the logout the dispatcher throws and pending
events are failed for good; overlapping dispatches send the same event twice.
History of one chat may be sent to the model after a switch to another, and the
answer goes to the session that is active when it comes (`event-handlers.ts`
347-362); what is typed while a suggestion is awaited is wiped (397). An agent's
first answer and its follow-up both number their proposals from 1, so that
approving the second applies the content of the first (`agent-runner.ts:84-110`,
`event-handlers.ts:1296-1367`). Reverting an older of two changes of a file
erases the later one; a change that is accepted while its revert is written ends
reverted. The scan of a repository writes over an invalidation that came
meanwhile (`repo-graph-cache.service.ts:115-119`). `chat/payload-sanitizer.ts`
falls back to the unsanitized payload when its JSON does not parse.

*Rust.* None of the crates is a dependency of the desktop's `src-tauri`. The
monitor of the MCP client can start a server again that was disconnected
meanwhile, a restart that fails loses the server, and a server that does not
answer holds `running`. On the canvas, the flag of `execute_workflow` cannot be
reached, a cancellation may overwrite a completion, retries ignore the flag and
wait for nothing, and an update with a stale copy erases an approval. In
`secure-sandbox`, `get` and `set` of the cache take two locks in opposite orders.
In `hive-memory`, two replicas with equal timestamps never converge. The stream of
`local-inference` stops without a word when its channel is full.

<a name="plan"></a>
## 6. What is not modelled, and the plan

Not modelled, with the reasons in `PROJECT.json`:

- views, rendering, content, translations, user interface kits, deployment
  files; wrappers of external programs and of the operating system; protocol
  formatting (SCIM mapping, second factor, e-mail); the pattern scanners. They
  keep no state between two calls that a property could relate. Most of the
  repository's lines are of this kind (a third of them is one catalogue,
  `marketplace/fallback-catalog.ts`).
- code without a caller, or whose caller uses none of what would be hard: trials'
  conversion, collaboration, the sandbox's cache, the local inference process and
  the replicated memory. A model of them would have to invent what they are
  expected to do.
- usage events, jobs, the circuit breaker and the safe-diff list: single
  statements, handlers and operations with nothing between two of them.

Of modelled parts, `PROJECT.json` says what is left out under their `note`.

What the project could still grow by:

1. A book of members, in which a request takes effect at one instant, or its count
   is outdated; a log that only grows, of which the audit log is the window; a
   sort that gives some topological order in one step.
2. That an answer to a poll never signs in to a flow that was not completed: the
   control API forgets a flow it has answered for, so that this needs a history of
   the flows, which no other property of `SignIn` does.
