# MCP security gateway: TLA+ models, checks and proofs

The gateway stands between AI agents and MCP tool servers. An agent posts a tool
call; the gateway looks the tool up, validates the arguments, lets a policy decide
(allow, deny, require approval), calls the MCP server itself or waits for an
administrator's review, and records everything in PostgreSQL. This directory models
that core, the administration around it and the keys it is entered with, model-checks
them with TLC and proves the main safety properties with TLAPS.

Paths below are relative to `src/src/mcp_security_gateway/` unless they start with
`docs/` or `tests/` (under `src/`).

## 1. Inventory

| component | state | operations | talks to |
|---|---|---|---|
| Tool-call service (`application/services/tool_call_service.py`, route `api/routes/tool_calls.py`) | none of its own; `tool_calls` rows through its session | `call_tool`, `execute_approved_tool_call` | policy engine, approval service (create), repositories, audit, MCP client |
| Approval service (`application/services/approval_service.py`, `api/routes/admin_approvals.py`) | `approval_requests` rows | `create_pending_approval`, `list_approvals`, `approve_approval`, `deny_approval`, lazy expiry | tool-call service (execution), repositories, audit |
| Policy engine (`application/services/policy_engine.py`, `domain/policy.py`) | none | `evaluate`, condition parser and matcher, secret scanner, redaction, hash | policy repository |
| Repositories (`infrastructure/db/`) | all tables; one session and one READ COMMITTED transaction per HTTP request | create, update, conditional `transition_status`, lookups | PostgreSQL |
| Audit service (`application/services/audit_service.py`) | `audit_events`, append only | append in the caller's session | repositories |
| Tool registry (`application/services/tool_registry_service.py`, `api/routes/admin_tools.py`) | `tool_servers`, `tool_definitions` | create server, refresh (awaits the MCP server), PATCH | MCP client, repositories |
| Agents and authentication (`agent_service.py`, `api/dependencies.py`, `infrastructure/auth`) | `agents` | create, disable, authenticate | repositories |
| MCP stdio adapter (`infrastructure/mcp/stdio_client.py`) | a child process per call | `list_tools`, `call_tool` with a timeout | MCP SDK |
| Engine and session factory (`infrastructure/db/session.py`, `get_db_session`) | a pool of connections per worker | a session per request: opened, given a connection by its first statement, closed when the request has ended | PostgreSQL |
| HTTP layer, settings, health | none | schemas, error mapping | all services |

What is hard here:

* **Coroutines with a synchronous database session.** A handler keeps its worker's
  event loop from one `await` to the next, even while a statement waits for a lock in
  PostgreSQL. The only `await` of the two core handlers is the call of the MCP server,
  and it is made with an open transaction.
* **One transaction per request around an external effect.** The upstream call has run
  before the commit that records it. A crash, or an exception the handler does not
  catch, rolls the record back, not the effect.
* **Decisions by the database.** Which of two duplicates executes is decided by a
  unique index, which of two reviews wins by a conditional UPDATE and its row lock.
* **Reads before a wait.** The idempotency lookup, the approval's status, its expiry and
  the tool's row are read before a statement that may wait, and used after it.
* **Fail-closed evaluation** over an ordered list of stored, unvalidated policies.
* **A pool under an event loop.** A request keeps its connection across the upstream
  call, and the next one may wait for a connection on the event loop its holder needs.
* **Two walks over the same arguments.** The scan decides, the redaction is what
  reviewers and the audit trail see; nothing but their definitions makes them agree.
* **A queue read in pages.** Approvals expire lazily and return to pending when their
  execution is lost; administrators see the oldest ones, up to a limit.

What makes each part correct:

* tool calls: an operation runs at most once, duplicates get the recorded answer, every
  outcome is recorded with its audit event, nothing final changes;
* approvals: one winner, call and approval and payload move together, who is told
  "denied" or "expired" can rely on it;
* policy engine: built-in rules prevail, a restriction anywhere in the list beats an
  allow, an unreadable policy denies, the record names the policy that decided;
* registry: a discovered tool is never callable before an administrator has classified
  and enabled it; a refresh keeps manual classification; schema and hash agree;
* authentication: a disabled agent starts nothing new, a key that was given out works,
  an administrator can rely on what was answered, no request keeps a connection;
* redaction: every secret is found and hidden at any depth and nothing else is, and a
  reviewer sees exactly the arguments that will be sent;
* review queue: no pending approval is forgotten behind a limit.

## 2. Modules

| module | models | refers to |
|---|---|---|
| `GatewayTypes` | enumerations, codes, `Decisions(risk)` (what a policy can decide at a risk level) | `domain/enums.py`, `errors.py` |
| `GatewayDb` | committed tables `calls`, `approvals`, `audit`; private writes `txn[r]` of each request; unique index, row lock, conditional update; commit and rollback | `infrastructure/db`, `get_db_session` |
| `ToolCallService` | the handler of one tool call from arrival to answer, and the execution of an approved call | `tool_call_service.py` |
| `ApprovalService` | the handlers approve and deny | `approval_service.py` |
| `Gateway` | all requests on their workers with clients, administrators, clock, crashes and database failures; the properties and the inductive invariant | routes, `main.py` |
| `CallLifecycle` | the abstract promise about a tool call, without workers, sessions or transactions | – |
| `MCGateway` | instances for TLC | – |
| `GatewayProofs`, `GatewayLifecycleProofs` | theorems about `Gateway`; that it implements `CallLifecycle` | – |
| `ArgumentRedaction`, `ArgumentRedactionProofs` | `SecretScanner.scan` and `redact_arguments` as functions over JSON values, what they should be, and that they are | `policy_engine.py` |
| `PolicyService`, `MCPolicyService`, `PolicyServiceProofs` | `PolicyService.evaluate` with the parser and the matcher of conditions, its instances and its theorems | `policy_engine.py` |
| `ToolRegistry`, `MCToolRegistry`, `ToolRegistryProofs` | creation of the tool server, refreshes and PATCHes of its tools, their instances and theorems | `tool_registry_service.py`, `admin_tools.py` |
| `AgentService`, `MCAgentService`, `AgentServiceProofs` | creation, disabling and use of API keys on event loops, threads and pools of connections, its instance and its theorems | `agent_service.py`, `dependencies.py`, `admin_agents.py`, `session.py` |
| `ApprovalQueue`, `MCApprovalQueue`, `ApprovalQueueProofs` | the pending approvals as administrators list and review them, an instance and the theorem | `approval_service.py`, `list_filtered` |
| `SetInduction` | the induction that the proofs about recursive functions use | – |

`ToolCallService` extends `GatewayDb`, `ApprovalService` extends it, `Gateway` composes
them. `Gateway` does not run the policy loop inside a call: it takes any decision in
`Decisions(risk)`, and `WithinRisk` of `PolicyService`, checked and proved, says that
`evaluate` decides within that set. Both modules read the same definition of it.
Likewise a refresh or PATCH is one step of `Gateway` on the status and risk of one tool:
`OnlyAdminsClassify` of `ToolRegistry`, checked and proved, says that the interleaved
handlers change them in no other way (a committing refresh is one `RefreshTools` per new
tool). `PolicyService` extends `ArgumentRedaction` and runs both walks in its first step.
Whether `Authenticate` of `Gateway` admits a request is an open choice there; who may be
admitted is the subject of `AgentService`. `ApprovalQueue` takes a review as one step with
the outcomes `ApprovalService` gives it, and looks at the order of many.

### Granularity

`pc[r]` says where the handler of request `r` stands. Code that runs without giving up
the event loop, and without a statement whose result another transaction could change
meanwhile, is one action. Cuts are made where the code can be overtaken:

* before the handler: the thread pool of the synchronous dependencies (`received`);
* after the idempotency lookup (`lookup_tool`): the tool row is read in a later statement;
* before the INSERT of the call (`allow`, `deny`, `require_approval`), which may wait for
  the unique index;
* before the conditional UPDATE of an approval (`approve_pending`, `deny_pending`,
  `expire_pending`), which may wait for its row lock;
* at the upstream call (`awaiting`), where the event loop is free;
* between the exception and the closing of the session (`unwinding`).

The last statements of a handler and its commit are one action: the rows it still
writes are its own or are locked by it, so nothing can come between that anybody could
see. `Commit` publishes row, approval and audit events together, as one transaction
does; the audit events of a request are the set of statuses it recorded.

A call and its approval are both named by the request that created the call. Agents
stand for (tenant, agent) pairs and tools for (server, tool) pairs; arguments are told
apart by their hash. The payload is a flag: kept or cleared.

### Correspondence

| code | action |
|---|---|
| `require_agent` | `Authenticate` |
| `call_tool` 96-107, `_idempotent_result` | `LookupIdempotencyKey` |
| `call_tool` 109-186 | `LookupTool` (not found, disabled, schema invalid, an internal error of the validator or of the policies, or a decision) |
| `_create_tool_call` and what follows until the next wait | `CreateToolCallFails`, `DenyCall`, `RequestApproval`, `FailWithoutClient`, `CallUpstream` |
| after the await | `CompleteCall`, or `UpstreamRaises` for an exception nobody catches, of the MCP client or of a statement that follows |
| `approve_approval`, `deny_approval` up to the UPDATE | `LoadApproval` |
| the UPDATE and what follows | `LoseTransition`, `ExpireApproval`, `DenyApproval`, `ApproveAndExecute`, `ApproveAndFail` |
| `execute_approved_tool_call` after the await | `CompleteExecution`, `UpstreamRaises` |
| a statement that fails before the upstream call, or a COMMIT that is not carried out there | `DatabaseFails` |
| `get_db_session` closing the session | `Unwind` |
| refresh, PATCH of a tool | `RefreshTools`, `UpdateToolDefinition` |

Each worker has an MCP client or has none (`McpWorkers`): the route sees that when the
handler runs (`McpConfigured`). A call of an active tool may end in an internal error in
`LookupTool`, with nothing of it left: the validator may raise something other than its two
errors (a `$ref` it cannot resolve), and a failed read of the policies denies the call but
aborts its transaction.

A worker in `Unreliable` may die or lose its database. A COMMIT that is carried out but whose
connection is lost before the confirmation answers an internal error over rows that are there
(`CommitAndAnswer`); one that is not carried out leaves what an exception leaves.

Three branches of the code cannot be reached from the states the program can be in and
are therefore no actions: the execution of an approval whose call has vanished or has
lost its payload (`tool_call_service.py:270-284`; `ApprovalMatchesToolCall` says that a
pending approval has both), a lost `approved -> executed` transition (lines 351-357; the
row is locked, `InFlightIsAuthorised`), and an EXECUTING row found by a lookup, which is
in the model (`LookupIdempotencyKey`) but never taken since no EXECUTING row is ever
committed.

The policy engine is one evaluation: scan of the arguments, built-in rules, read of the
policies, one action per row, the end of the loop. The read may return any list in
`PolicyLists`, in any order, which covers equal priorities. Stored conditions are no object
(`Malformed`) or a record of the fields they have; `Parses` rejects unknown fields and
fields without their shape, and a field that is absent or `None` constrains nothing. A
pattern is the set of resources it matches. `argument_equals` compares as Python's `==`
does, for which 1, 1.0 and `True` are one value at any depth: `python_value` maps a JSON value
to what Python tells apart, with `EqualTo` for the scalars.

JSON values are leaves, objects and arrays of a set `Json` closed under membership and
under redaction, of a bounded `Depth`, and the two walks are recursive functions over it
(`redact`, `scan_value`), each written as the code writes it. The reference knows nothing of
either: `Places` is the set of all places of a value, each a path and what lies there,
`EndsSecret` and `Beneath` say what a path means, and `Redacts` and `Finds` what a redaction
and a list of findings have to be. A path is a sequence of keys and indexes, which the text
`$.key[0]` of a finding only renders.

In `AgentService` the routes of administrators hold the event loop from `StartAdmin` to
their end, also while they wait for a connection, a row or an index entry; `require_admin`
may refuse them before that. `require_agent` waits in a thread. After an upstream call
`Resume` commits, or leaves with an exception and keeps the connection until `Close`. A session has its connection from its first statement (`Connect`, or
`ConnectTimesOut`) to the commit or, without one, to `Close`. The exit of `get_db_session`
runs in a thread after the answer of a request that read only, and before the answer to an
exception. `Written` is what the transaction publishes at `Commit`; `DatabaseFails` fails any
statement, and at a commit leaves open whether it was carried out; `Crash` takes a worker's
requests and connections. A key is named by the creation that issued it: two agents never
have one key, as random keys do not repeat.

In `ApprovalQueue` rows come in the order of `created_at`, which is the order in which they
become visible (approvals of nearly the same instant may swap). An approval that has been
decided makes room for a new one under its name, so that there is no end to approvals and
no counter either. `Selected` is `SelectSeq` for membership in a set, written as a
recursive function because the prover does not open `SelectSeq`.

`ToolRegistry` follows a definition through three stages: the committed row `defs[t]`,
the row a handler has `seen`, and the columns a refresh has flushed (`writes`). SQLAlchemy
sets a column only if its new value differs from the one read, as Python's `==` compares:
`Changed` and `ToSet` are those columns, and `RowAfter` puts them over the committed row.
`Locked` makes a statement wait for the row, or for the entry in the unique index, that
another transaction has written. A refresh reads (`SelectTool`), writes (`RegisterTool`,
`RegisterFails`, `UpdateTool`) and commits (`CommitRefresh`) in separate actions, since
other workers can come between; a PATCH reads and then updates and commits. `Refuse` is
any error that ends a handler: its transaction is rolled back at once, by the failed flush
or by PostgreSQL. A hash is named by the schema it is of. `risk` and `schema` stand also for
`action_type` and `description`, which are written the same way.

## 3. Properties

| property | says |
|---|---|
| `NoDoubleExecution` | over all calls with one key and all reviews of their approvals, at most one request effectively calls the MCP server; a run that the database has lost (crash, uncaught exception) is the only one that may be repeated |
| `InFlightIsAuthorised` | while an upstream call runs, its transaction alone holds the key, or the approval, that entitles it |
| `ApprovalMatchesToolCall` | committed call, approval and payload are always one of nine coherent combinations |
| `AuditExplainsState` | the audit trail explains every row: how a call was created, and which single review closed an approval, with which outcome |
| `OutcomeIsHonest` | a call recorded as succeeded was run by the request on record; one recorded as denied was not run |
| `AnswersStayTrue` | what a client or administrator was told stays what the database holds, a replay answers about the same operation, an error means that nothing was written, unless it is an internal error of a worker that may lose its database at the COMMIT |
| `FinalMeansFinal` | no step changes a finished row or removes an audit event |
| `EveryRequestAnswered` | a request that has arrived is answered, or its worker dies |
| `ImplementsLifecycle` | the composition refines `CallLifecycle` |
| `WithinRisk`, `DestructiveNeedsAdmin` | no configuration widens what the built-in rules leave open |
| `AllowIsEarned` | an allow is opposed by no row that was read, wherever it stands in the list, and earned by one, or by the low-risk read rule |
| `MatchedPolicyDecided`, `NoSpuriousDeny` | the policy on record is the first that decides that way; a row that does not match never denies, even if its effect is unknown |
| `RedactionIsComplete` | below a sensitive key nothing is left, elsewhere exactly the strings that look like secrets are replaced, at any depth |
| `FindingsAreExact` | the scan reports every secret at its place and nothing else, or has failed, which denies |
| `ReviewersSeeEverything` | of a call that is allowed or put before a reviewer nothing was redacted |
| `OnlyAdminsClassify` | a tool appears disabled and critical, and its status and risk change only to what a PATCH answered in that step names: no refresh overwrites them with what it read before |
| `HashMatchesSchema` | schema and hash of a tool come from one announcement, whatever refreshes overlap |
| `RefreshRegistersAll` | a refresh that answers has registered every tool it was told of |
| `RequestsEnd` | every administrator's request is answered: waits for rows and loops end |
| `DisableIsEffective` | after a disable has been answered, no request sent with that key is admitted, on any worker |
| `KeysWork` | a key that was given out is never unknown, and refused as disabled only if somebody asked for that |
| `AdminAnswersTrue` | created, taken and disabled, as answered to an administrator, is what the database holds from then on |
| `NoConnectionLeaks` | the connections checked out are those of sessions that are open and have sent a statement, however requests end |
| `EveryAccessEnds` | every request for or with a key ends, or its worker dies: the pool's timeout ends every wait |
| `EveryApprovalDecided` | a diligent reviewer reaches every pending approval they ask for, behind whatever limit |

`TypeOK` and `PolicyTypeOK` are type invariants; `IInv`, `LoopInv`, `RegistryInv`,
`AccessInv` and `QueueInv` (the last three with the types of their modules) are the
inductive parts the promises rest on.

## 4. Runs

| run | instance | shows |
|---|---|---|
| `two_workers` | 2 calls of one agent (same key or none, same arguments or not), 1 review of call 1, approve or deny, a tool of low, high or critical risk, 2 workers, worker 1 may crash or be failed by its database | all safety properties, `IInv`, and refinement of `CallLifecycle` |
| `answered` | 2 calls with one key, 2 reviews of one approval, one value of arguments, one worker per request, that of call 2 without MCP client, no crash | liveness; two reviews that overlap |
| `evaluate` | lists of up to three policies over eleven kinds of conditions, one of which expects 1 and meets 1 and `True`; contexts of all risk levels, roles and actions; arguments nested up to three levels with secrets at each | the policy engine, the scan and the redaction |
| `registry` | 1 creation, 2 refreshes, 1 PATCH of the first of 2 tools, 2 workers; announcements of one tool or both, in either order, with the old schema or a new one | safety and liveness of the registry |
| `access` | 2 creations of one name, 2 disablings, 1 use of a key, 2 workers with 1 connection and 1 thread each, one of which may die or be failed by its database | safety and liveness of agents, keys and the pool |
| `queue` | 3 approvals of 2 tenants, a diligent reviewer with limit 1 and one who comes and goes | the review queue |
| `lost_audit` | as `two_workers`, no crash | refutes `LookupFailuresAudited` |
| `duplicate_in_flight` | as `two_workers`, no crash | refutes `InFlightDuplicateConflicts` |
| `approval_replay` | as `two_workers` | refutes `ApprovalExecutesOnce` |
| `uncaught_failure` | as `two_workers`, no crash | refutes `UpstreamFailuresRecorded` |
| `frozen_loop` | 2 calls with one key and a review on one worker | refutes `EveryRequestAnswered` |
| `loose_schema` | 1 refresh, schemas that differ as 1 and true do | refutes `HashMatchesSchema` |

**Bounds.** Two requests suffice to collide on a key or on an approval, in either order,
on one worker or on two. In `two_workers` the review meets the duplicate of a call that
waits for its approval, and a crash of the worker that runs the first call and the review;
in `answered` a second review allows a collision on the approval and one on the key at
once. `MCInit` fixes names only: call 1 has arguments `x1`, review 1 concerns call 1, and
both calls carry the key or neither does (a key used once collides with nothing, like
none); `Contended` adds that they do. One tool suffices since handlers touch no other tool
than their own; a different tool under one key takes the same branch as different
arguments. No counter is bounded: every request is sent once and the state space is
finite. `CHECK_DEADLOCK FALSE` is set in `frozen_loop` only, where the system does stop;
elsewhere `Quiescent`, `AllAnswered` and `AllEnded` are the one legitimate end.

For the registry, two refreshes with two tools give every order of reads, writes and
commits on one row, both losers of the unique index and a cycle of waits; the first tool is
unknown, as registered, or enabled. The PATCH shares a loop with one refresh and races the
other. An MCP server announces a name once (`DiscoveriesType`), and announcements are fixed
lists in `SomeDiscoveries`.

For `access`, a pool of one connection is exhausted by one request: one worker has three
requests for it, among them one that awaits its upstream call, which is how the fifteen of
a real pool run out. Two requests of each administrator's kind, one on either worker, give
every order of two inserts of one name and of two updates of one row; either everybody
is after one agent, or the ids, keys and tenants nobody knows are used (`MCAccessInit`).

For `queue`, three approvals keep coming back for ever, more than the list shows; the
diligent reviewer sees one at a time and the other reviewer's list can be stale.

For policies, two rows show every order of two decisions and three show an allow kept
past one restriction to the next; beyond that the theorems hold for lists of any length.
Arguments nested three levels deep put every kind of value below every other, and a
recursion that goes wrong does so at the step from one level to the next; the theorems
hold for any depth and width.

**Fairness.** `WF_vars(Serve(r))` for every request: an event loop and a thread pool
serve what is ready, PostgreSQL grants a lock when its holder ends, and an upstream call
is bounded by `mcp_call_timeout_seconds`. Weak fairness is enough because in the run
`answered` each request has a worker of its own, as in a deployment with more workers
than requests in flight: a handler that could take a step is then disabled only by a
lock. Nothing is assumed of clients, administrators, the clock, crashes or database failures. When handlers
share a loop the property is false whatever the fairness: that is `frozen_loop`.

`RequestsEnd` assumes the same weak fairness and needs no worker per request: no handler
of the registry awaits with a lock held, so the holder of a lock always has its loop, and
a cycle of waits is broken by PostgreSQL (`DeadlockVictim`). A loop is taken by finitely
many handlers, each finitely often, so a handler that waits for it has it to itself in
the end.

`EveryAccessEnds` assumes that each request which can go on does so: an event loop and
threads serve what is ready, a statement comes back, and whoever waits for a connection is
given it or times out. It holds although handlers of administrators wait on the event loop
for connections whose holders need that loop, because `pool_timeout` ends every such wait.
`EveryApprovalDecided` assumes that time passes and that one reviewer per tenant keeps
listing and reviewing; nothing is assumed of others, of what a review decides, or of what
becomes of an execution. An approval that fails back to pending for ever leaves the queue
because it expires.

## 5. Where code and documentation differ

* `lost_audit`: the "failed" audit event of a refused lookup or validation is appended
  to a session that is then rolled back (`docs/security-model.md:43-46`).
* `duplicate_in_flight`: the EXECUTING row is not committed during the call, so a
  duplicate is not refused with a conflict (`errors.py:92`,
  `tests/unit/test_tool_call_service.py:558`); it waits on the unique index and then
  fails with an IntegrityError.
* `approval_replay`: pending -> approved is not committed before the upstream call, so a
  lost execution leaves the approval pending and a second approve executes again
  (`docs/threat-model.md:71-76`).
* `uncaught_failure`: an exception other than the two that are caught leaves no record
  of the call (`docs/security-model.md:95`).
* `frozen_loop`: a lock wait freezes the event loop its holder needs
  (`docs/architecture.md:58`).

* `loose_schema`: a schema that changes only between 1, 1.0 and true keeps its old
  `input_schema` and gets the new `schema_hash` (`docs/security-model.md:76`).

`NoDoubleExecution` is the guarantee that remains: at most one run per operation *that
the database has not lost*. It counts a rolled-back run as lost, and says so.

## 6. Proofs

All theorems hold for every value of the constants (any number of requests, workers,
agents, keys, tools; any assignment of requests to workers; any set of policies), under
the named assumptions `RequestsDisjoint`, `NoKeyIsNoKey`, `WorkerOfType`,
`McpWorkersType`, `AssignedRisksType`, `UnreliableType`; for the policy engine
`ContextsType`, `PolicyListsType`, `ConditionsType`, `NullIsScalar`, `SecretKeysType`,
`SecretStringsType`, `RedactedIsPlain`, `KeysAreNoIndexes` (keys are strings, indexes
numbers), `EqualToType`, `JsonClosed`, `JsonIsFinite` (a member nests less deep than its container, up to
`MaxDepth`, any number; Python refuses to recurse without end) and `JsonRedacted` (`Json` has
the redaction of each of its values, and no leaf has the form of an object or array); for the
registry
`KindsDisjoint`, `RegistryWorkerOfType`, `LooselyEqualType`, `UnsetIsNoValue`,
`NoToolIsNoRow` and `DiscoveriesType`; and for the agents `AccessKindsDisjoint`,
`AccessWorkerOfType`, `UnreliableType` and `PoolSizeType` (the proofs do not need
`NoAgentIsNone` and `UnknownTenantIsNone`); for the queue `LimitType`, a limit is positive
(`DiligentType` is not needed). They type the constants and keep kinds apart; TLC evaluates
them in every run of their module.

`GatewayProofs`:

| theorem | establishes |
|---|---|
| `TypeCorrect` | `Spec => []TypeOK` |
| `Invariant` | `Spec => []IInv` |
| `CallsMatchApprovals`, `InFlightAuthorised`, `AuditIsComplete` | `ApprovalMatchesToolCall`, `InFlightIsAuthorised`, `AuditExplainsState` |
| `ExecutedOnce` | `NoDoubleExecution` |
| `FinishedIsFinished` | `FinalMeansFinal` |

The argument. None of the properties is inductive alone: that a review may close an
approval depends on no other session holding it, which depends on who has updated the
row, which depends on where the handlers stand. `IInv` collects it: the unique index
(`KeysUnique`); a session with an inserted row is alone under its key
(`RowWritesExclusive`); a session with an updated approval is alone with it, and the
committed row is still pending (`ApprovalWritesExclusive`); a handler that awaits has
written first (`AwaitingHasWritten`); audit events exist exactly for committed rows
(`AuditOfCalls`, `AuditOfReviews`); who has called upstream never goes back
(`DispatchedOutcome`). The steps of `Next` fall into six kinds, each a lemma: a handler
moves or raises without touching rows (`QuietStep`), sessions roll back (`RollbackStep`), a call
commits its row (`RecordCallStep`), a review closes its approval (`CloseApprovalStep`), a
call or a review starts its upstream call (`CallUpstreamStep`, `ApproveStep`). `InvStep`
assigns every action to its kind. `NoDoubleExecution` follows from `IInv` with
`EffectiveRequest`, which says what an effective request has to do with the rows.

`GatewayLifecycleProofs`:

| theorem | establishes |
|---|---|
| `GatewayImplementsLifecycle` | `ImplementsLifecycle`: every step of the gateway is one of `CallLifecycle`, or a stutter |
| `AnswersAreKept` | `AnswersStayTrue` |
| `RecordsAreHonest` | `OutcomeIsHonest` |

`CallLifecycle` has one outcome per operation, `Gateway` has requests that stand somewhere,
hold uncommitted rows and have or have not called upstream. The refinement mapping reads the
outcome off the committed rows and off whoever is calling upstream. `HandlerKinds` sorts the
steps of the handlers by what they do to these: a handler moves on or replays, calls
upstream, records its call, closes its approval, loses its run, or answers an error. For
each kind one lemma names the abstract step (`PostponeStep`, `RefuseStep`, `BeginStep`,
`FinishStep`, `LoseStep`) or none. What carries the argument is that an operation has one
runner at a time (`OneRunner`) and that whoever may start it finds it free (`FreeToCreate`,
`WaitsForDecision`), both from `IInv`.

The two other theorems need more history than `IInv` has. `AnswersInv` adds that what a
request is about to be answered, or was, is of the kind its handler gives
(`AnswersFitTheirRequest`); a true answer then outlives every later step by `FinishedStep`,
since nothing final changes. `RecordsInv` adds that whoever is running, or has recorded a
run, was dispatched (`RunsAreDispatched`), and in which ways a review can be on record
(`ReviewAudits`).

`ArgumentRedactionProofs` is about data, and its theorems are about every value of `Json`:
`RedactExact` (`Redacts(redact_arguments(v), v)`), `ScanExact` (`Finds(scan(v), v)`) and
`CleanIsUnredacted` (a value without findings is its own redaction). The library's induction
theorems are about predicates, which the provers cannot instantiate; `SetInduction` states
induction of a set instead, and proves it from the well-foundedness of the numbers, and
`SetOfAllValues` carries it over to values by their depth. A recursive definition is a
choice among the functions that satisfy its equation: `RedactRecursion`, `ScanRecursion` and
`PlacesRecursion` show first that there is one. `LongerPath` and what follows it say how a
path relates to the same path seen from a container, which is how the findings and places of
a member become those of the value it is a member of.

`PolicyServiceProofs`: `PolicyInvHolds` shows `PolicyInv` inductive, with the loop
invariant (no row so far is decisive, and `allow_result` is the first that matches); from
it `PolicyTypes`, `LoopEstablishes`, `RiskPrevails`, `DestructiveDenied`, `AllowEarned`,
`DecisionExplained` and `DenialsExplained`, one for each property. What makes a row match is
never expanded, so these theorems hold for any matcher. `ScanInv` adds that what is kept of
the arguments is what the two walks made of them, and that without a denial there were no
findings; with it and the theorems about the walks follow `SecretsAreHidden`,
`SecretsAreFound` and `NothingIsWithheld`, for arguments of any shape.

`ToolRegistryProofs`: `RegistryInvariant` shows `RegistryInv` inductive: a row has one
writer (`LocksExclusive`); what a refresh has flushed is a new closed row where none is
committed, or schema columns of a row that exists (`WritesFit`); rows that handlers have
read still exist (`SeenExists`); what a refresh is done with is registered or will be
(`DoneAreRegistered`). From it `AdminsClassify` (`OnlyAdminsClassify`) and `RefreshComplete`.
`HashesMatch` proves `HashMatchesSchema` under the assumption `LooselyEqual = {}`, with the
further invariant `HashInv`: rows read agree, and no statement sets one of the two columns
alone. `loose_schema` shows that the assumption is needed.

`AgentServiceProofs`: `AccessInvariant` shows `AccessInv` inductive. The promises are not
inductive alone: that a late key is refused rests on the row being disabled for good, which
rests on what a disabling had written when it was answered; that a name is unique rests on
which creations have inserted and not committed (`AgentsInv`), and that on where each kind
of request can stand (`PlacesFollow`) and what it has been answered there
(`AnswersFollow`). Most steps move one request and change no row: `MoveStep` shows that a
`Legal` move preserves these parts, and `KeepsConnection`, `TakesConnection` and
`ReleasesConnection` that it keeps the pool in order, so that each action needs only its
new place, its answer and its use of the pool. Sending (`SubmitStep`), commits, also those
whose answer is lost (`CommitStep`), and deaths of workers (`CrashStep`) are shown apart.
`ConnectionsComeBack`, `DisableTakesEffect`, `AdministratorsToldTrue` and `IssuedKeysWork`
follow: `NoConnectionLeaks`, `DisableIsEffective`, `AdminAnswersTrue` and `KeysWork`.

`ApprovalQueueProofs`: `QueueInOrder` shows that `QueueInv` is inductive. `SelectedPicks`
says what the recursive `Selected` returns, by an increasing `index` into the sequence it
selects from; from it `SelectedOrder`, that leaving some out changes nobody's place. A list
then stays in the order of the rows while rows are appended, a name that is used again is
taken out of both, and its head is reviewed (`CreateStep`, `ListStep`, `ReviewStep`).

Every invariant and every action property that a run checks is also stated by a theorem.
Model-checked only are the four liveness properties `EveryRequestAnswered`, `RequestsEnd`,
`EveryAccessEnds` and `EveryApprovalDecided`: they rest on fairness, and `ENABLED` is out of
the prover's reach. `HashMatchesSchema` is proved for schemas that Python tells apart, and
refuted by `loose_schema` for others.

## 7. Not modelled

* The pool of connections in `Gateway` and `ToolRegistry`: unbounded there, the subject of
  `AgentService`. A call that is refused for want of a connection has written nothing.
* Failing SQL statements in `ToolRegistry`, other than by a constraint or a deadlock;
  `AgentService` and `Gateway` fail any statement and any commit. A connection lost while the
  upstream call is awaited shows when the handler resumes (`UpstreamRaises`).
* That a denial is lost when the read of the policies fails: the model has it (the internal
  error of `LookupTool`), but the client is told of an error and no row contradicts it.
* A field of `argument_equals` that is null against one that is missing, and 1 against `True`:
  the policy properties hold for any matcher, and no source says which reading is right.
* Schemas during a call: whether arguments match is an open choice of `Gateway`. What a
  schema or a risk level changed between request and approval should mean, no source says.
* A call in flight while its tool or server is disabled: the code makes no promise for it.
* Overlapping PATCHes that each write only what differs from what they read, and the order
  in which overlapping refreshes commit: the model has both, no source says which
  combination would be wrong.
* Regular expressions and glob patterns: the sets of what they accept. The hash of the
  arguments: whether it fails is an open choice.
* The checks of a server's creation other than its unique name, and a refresh without MCP
  client, which is refused like one whose `list_tools` fails.
* Listings other than that of approvals, health, settings, HTTP statuses, wording; schemas
  of requests, ports and dataclasses, which have no behaviour of their own.

## 8. Plan

1. Done: the core, the registry, the policy engine with its redaction, agents and the pool,
   the review queue.
2. Done: proofs of all safety properties, and of the refinement of `CallLifecycle`.
3. Next: abstract promises for the agents' keys and for the registry, like `CallLifecycle`,
   with the proof that `AgentService` and `ToolRegistry` implement them.
