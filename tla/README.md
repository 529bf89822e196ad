# Umbod: a TLA+ model

Umbod is a self-hosted gateway for the Model Context Protocol. Administrators
register connectors (native tools, OpenAPI documents, downstream MCP servers)
through a REST API; MCP clients see the tools, prompts, resources and files that
their groups may use. This directory models the parts of its Python backend
(`src/umbod/api/src`) where several processes, tasks and requests meet. Paths
below are relative to `src/umbod/api/src/umbod/` unless they start with `src/`.

## Inventory

### How the system hangs together

* One **application database** (SQLite or another SQL store). Writes run in
  serialized write transactions (`core/persistence`,
  `TransactionMode.SERIALIZED_WRITE`); reads mostly run on their own, one store
  at a time.
* The **REST process** serves administrators and the frontend. A handler reads,
  often talks to a remote server, and writes in a transaction at the end.
* **MCP workers** answer MCP clients from in-memory projections of the database.
  They learn of changes from the **durable event stream**
  (`core/messaging/stores`): every transaction that changes what discovery
  serves appends an event, every worker polls the stream past a checkpoint of
  its own.
* Each MCP worker also runs a **discovery task** that probes the downstream
  servers periodically and writes their catalogues to the same database.

So the interactions are: REST handler -> transaction -> event -> poll -> reload
of the projections; and discovery task -> probe -> transaction, guarded by a
*generation* that tells whether what was probed is still what is configured.

### Components

| Component | State | Operations | What makes it hard | What makes it correct |
|---|---|---|---|---|
| Runtime projection (`mcp/messaging`, `mcp/public_app.py`, `mcp/connectors/downstream_mcp/runtime`) | checkpoint, health flags, five projections, a lock | bootstrap, poll, retry, reload | commits during loads, failing reloads, crashes, two tasks that reload one snapshot | no change is lost, nothing is rolled back, not ready while incomplete, every change is served at last |
| Event stream (`core/messaging/stores`) | the stream, checkpoints | append in the state transaction, read after, save checkpoint | filtered types, batches | the order of commits; an event for every change |
| Downstream connector administration (`core/connectors/downstream_mcp/management`, `rest/connectors/downstream_mcp`) | definition, credential, catalogue, health, publication, activations, generation | create, edit, reauthorize, discover, switch tools, publish, unpublish, delete | a probe without a transaction between read and write; several administrators | unique public names, usable published connectors, nothing left of a deleted one, no late result |
| Discovery task (`mcp/connectors/downstream_mcp`) | schedule, per-connector locks, a semaphore | cycle, admit, apply, record failure | probes overtaken by edits, deletion, token rotation; exceptions | obsolete results leave no trace, the task goes on |
| Group permissions (`core/permissions`) | grants per group | save, update, register, delete | check in one transaction, write in another | no grant of what is gone; an event per change |
| Publishing, activation, descriptions (`core/publishing`, `core/activation`, `core/capabilities`) | rows per connector and capability | set | events decided before the transaction | events for what is exposed |
| Invocation policies and tool approval (`core/invocation`, `mcp/connectors/native/approval*.py`) | policy revisions, consumed nonces | compare-and-set, approve, consume | continuations that race, policies that change in between | one use per approval, under the policy approved |
| Personal OAuth (`core/connectors/downstream_mcp/personal_connections`, `stores/personal_*`) | connections, attempts, refresh claims, rejections | reserve, publish, claim, complete, cancel, fail; refresh | expiry, double callbacks, lost answers of the provider | one exchange per attempt; never reuse an uncertain token |
| Uploads (`core/filesystem/uploads`) | sessions, delegated grants | begin, put, put delegated, complete | streaming without a transaction, expiry, cancellation, crash | content completed is content verified; a grant is used once |
| Filesystem namespace, sharing, deletion (`core/filesystem`) | tree, ownership, shares, content | create, update, move, share, delete | several tables per operation | a tree; owners and shares of existing nodes only |
| OpenAPI connectors (`core/connectors/openapi`, `rest/connectors/openapi`) | definition, catalogue of operations; publication, activations and grants in the tables of all connectors | create, set up, import, publish, switch operations, grant, delete, call | every request is a sequence of short transactions; deletion leaves most rows behind | a call is let through by nothing older than itself; imports keep what is granted |
| Native connector configuration (`core/administrator`) | one document per connector | compare-and-set | concurrent edits | no lost update |
| Listeners (`hosting`) | sockets, servers, tasks | start, drain, close | deadlines, signals and failures that race | ready only while all serve; everything is closed |
| Connection pool (`infrastructure/connections`) | idle connections, capacity | borrow, release, close | cancellation, failing drivers | capacity is never lost; close ends |
| Request cache (`core/caching`) | pending futures and generations per key, a key-value driver | get or load, invalidate, clear | loads that overtake invalidations, failing and cancelled owners with waiters | one load at a time; no read returns what was invalid when it began; every read ends |
| Persistence, telemetry, icons, identities, REST presentation, CLI, frontend, SDK | - | - | - | not modelled; `PROJECT.json` gives the reason for each |

`PROJECT.json` lists every component with its status, and under `hazards` the
places in the code that tests hardly reach, each with the properties that watch it.

## Plan

The order is that of importance: first what every request depends on, then what
administrators can break, then what users hold, then the smaller concurrent machines.

| # | Module | Models | Composition and abstraction | State |
|---|---|---|---|---|
| 1 | `RuntimeProjection` | event stream, checkpoints, bootstrap, poll, retry, the five projections, the discovery task's reloads | its `Commit` stands for every transaction that appends an event, those of modules 2, 4, 5, 7 and 10 among them | done, safety proved |
| 2 | `DownstreamConnectors` | administrators' requests and discovery tasks on the connector aggregate, with generations | `events` is the length of module 1's stream | done, safety proved |
| 3 | `RequestCache` | single-flight loads, invalidation by generation, cancellation of owners and waiters | refines `ReadThrough` | done, proved |
| 4 | `Filesystem` | namespace, access, sharing, homes, provisioning, group usage, revisions | extended by module 5 | done, safety proved |
| 5 | `Uploads` | sessions, delegated transfers, streamed bodies, completion, expiry, crashes | extends `Filesystem`; refines `UploadPromise` | done, proved |
| 6 | `PersonalConnections` | authorization attempts, refresh claims, rejections, observations, listings | the provider answers late or never | done, safety proved |
| 7 | `ToolApproval` | policy compare-and-set, questions and answers, nonces, deletion of files | the file is a revision, as module 4 shows it to be | done, proved |
| 8 | `ConnectionPool` | borrowing, initializing, closing under cancellation and failures | refines `ConnectionLoans` | done, proved |
| 9 | `Listeners` | start-up, readiness, serving, draining, closing of the API process | - | done, safety proved |
| 10 | `OpenApiConnectors` | creation, setup, imports, publication, activation, grants, deletion and calls of OpenAPI connectors | the tables of module 2's publications, activations and grants, for connectors of the other kind | done, proved |

No abstract change feed stands above modules 1 and 2: what it would promise, that
nothing is rolled back, that no change is passed over and that every change is served
in the end, are properties of `RuntimeProjection` in its own words. Every safety property of every
module is proved; what is left to do is breadth (see "Not modelled").

## Modules

| File | Contents |
|---|---|
| `RuntimeProjection.tla` | the model, its properties, its inductive invariant `IInv` |
| `MCRuntimeProjection.tla`, `RuntimeProjection.cfg` | an instance for TLC |
| `RuntimeProjectionProofs.tla` | lemmas about coverage and loads, one lemma per action, the safety theorems |
| `DownstreamConnectors.tla` | the model, its properties, its inductive invariant `IInv` |
| `MCDownstreamConnectors.tla`, `DownstreamConnectors_*.cfg` | instances for TLC |
| `DownstreamConnectorsProofs.tla` | lemmas about names and fences, one lemma per kind of step, the safety theorems |
| `ReadThrough.tla` | what a cache promises to its callers |
| `RequestCache.tla`, `MCRequestCache.tla`, `RequestCache.cfg` | the model, its properties, its inductive invariant `IInv`, the refinement; an instance |
| `RequestCacheProofs.tla` | one lemma per action, `Invariance`, the refinement of `ReadThrough` |
| `Filesystem.tla`, `MCFilesystem.tla`, `Filesystem.cfg` | the tree, its owners and grants; an instance |
| `UploadPromise.tla` | what becomes of a session: at most one file |
| `Uploads.tla`, `MCUploads.tla`, `Uploads.cfg` | sessions and streams over `Filesystem`, the refinement; an instance |
| `FilesystemProofs.tla` | the inductive invariants of `Filesystem` and of `Uploads`, one lemma per action, the safety theorems, the refinement of `UploadPromise` |
| `PersonalConnections.tla`, `.cfg` | the personal connections of a connector |
| `PersonalConnectionsProofs.tla` | its inductive invariant, user by user, one lemma per action, the safety theorems |
| `ToolApproval.tla`, `MCToolApproval.tla`, `ToolApproval.cfg` | policies, questions, answers; an instance |
| `ToolApprovalProofs.tla` | its inductive invariant, the safety theorems |
| `ConnectionLoans.tla` | what a pool promises: connections lent to one borrower at a time |
| `ConnectionPool.tla`, `.cfg` | the pool, the refinement mapping |
| `Listeners.tla`, `.cfg` | the API process from start to end |
| `ProcessProofs.tla` | the inductive invariants of `ConnectionPool` and of `Listeners`, one lemma per action, the safety theorems, the refinement of `ConnectionLoans` |
| `OpenApiConnectors.tla`, `MCOpenApiConnectors.tla`, `OpenApiConnectors.cfg` | requests to OpenAPI connectors, step by step; an instance |
| `OpenApiConnectorsProofs.tla` | its inductive invariant, the courses a request can take, the theorems |

A definition whose comment begins with "Mutant" is a plausible bug of the
definition after it; it is part of no specification. `PROJECT.json` names, for
every property, the mutant that it catches, and maps every definition to the
lines it models.

### RuntimeProjection

An MCP worker keeps five projections of the database in memory. Its main task
bootstraps them (`mode` `fence`, `hydrate`, `replay`, `baseline`), then polls the
event stream (`running`).

| Code | Model |
|---|---|
| a write transaction with its change event | `Commit(S)`: the stores `S` get the number of the event |
| `RuntimeProjectionSynchronizer.bootstrap` | `Start`, `FenceRead`, `FenceReached`, then the loads, `FinishApply`, `Poll`, `Retry`, `Bootstrapped` |
| `initialize_native_capabilities` | mode `baseline`: one more load of the downstream snapshot, `FinishBaseline` |
| `_poll_once`, `_apply`, `_mark_failed` | `Poll`, `Retry`, the loads, `FinishApply`, `SyncLoadFails`, `SyncListFails` |
| one `await` of a store in a loader | `Read` (from `SyncRead`, `RefreshRead`) |
| the last `await` and the assignment after it | `Publish` |
| a loader that raises | `Discard`; permissions are in `Retained`: a failed reload leaves them |
| `NativeCapabilityChangeMonitor.apply_and_notify` | `RefreshBegin`, two loads around `RefreshChange`, `RefreshEnd` |
| the health flags, checkpoint, lock | `ready`, `failed`, `checkpoint`, `monitor` |
| a crash, or an exception before `running` | `Crash` |

What is abstracted, and why nothing is lost by it:

* A store's content is the number of the last event that changed it. The
  properties are about which changes a projection reflects, not about what the
  changes are.
* One lock stands for the monitor's lock and the runtime's lock nested in it:
  both are taken on every path that reloads the snapshot.
* `checkpoint` stands for the durable checkpoint and `last_applied_sequence`. A
  new process has a new consumer id, so its checkpoint starts at 0.
* What is loaded while the process is being built is loaded again by bootstrap,
  before anything is served; it is left out.
* One refresh activity per worker: overlapping cycles are excluded by the
  runner, and further ones wait at the same lock.
* A projection other than the snapshot is reloaded by the main task alone.

### DownstreamConnectors

The aggregate of a shared downstream MCP connector is seven rows: `definition`,
`credential`, `catalog`, `health`, `published`, `active`, `generation`. A request
or a discovery reads them, probes the server without a transaction, and writes
in one serialized transaction. Each of these phases is an action; between two
phases everything else may happen.

| Code | Model |
|---|---|
| `create` | `Create` (fresh identity: nothing can overtake its probe) |
| `patch_connector` | `PatchBegin`, then `EditWritePrefix` without a probe or `EditResolve`, `EditWrite` with one |
| `put_configuration` | `PutBegin`, `EditResolve`, `EditWrite` |
| `reauthorize` | `ReauthorizeBegin`, `EditWrite` |
| `refresh` (by an administrator) | `DiscoverBegin`, `DiscoverSucceeds` or `DiscoverFails` |
| `set_tool_activations` | `ToggleBegin` (catalogue read), `ToggleCheck` (is it exposed?), `ToggleWrite` |
| publication | `Publish`, `Unpublish` |
| `DownstreamConnectorDeleter` | `DeleteBegin` (grants checked), `DeleteWrite` |
| group permissions | `GrantBegin`, `GrantWrite`, `Revoke` |
| the OAuth token store | `Rotate` |
| `ConfiguredConnectorRefresher`, `ConnectorDiscoveryExecutor`, `DefinitionBoundDiscovery` | `CycleStart`, `Execute`, `Admit`, `RefreshSucceeds`, `RefreshFails`, `RefreshObsolete` |
| the exceptions that leave `gather` | `AdmitUnavailable`, `RefreshConflicts` |
| any failure or cancellation of a request before it writes | `RequestFails` |
| a restart of the worker | `Restart` |

What is abstracted:

* A `Configuration` stands for the server as resolved (endpoint, authentication,
  headers); the normalisation of endpoints by probes happens before the first
  write and changes no interleaving.
* Catalogues keep tools only; prompts and resources are written in the same
  transactions. Public paths of connectors are not modelled.
* The early check of names in `update()` is subsumed by `RequestFails`: it can
  only end a request that the transaction would end too, or one that it would not.
* Which connectors are due is arbitrary, which includes every schedule.
* The per-connector lock against overlapping refreshes is not needed with the
  one runner a worker has, and `CycleStart` waits for the last cycle as `gather`
  does.
* One flag per connector says that some group's permissions name it.
* Description overrides, connectors with personal OAuth, and the invalidation of
  a deleted identity's cached clients are outside.

### RequestCache

Tasks of one event loop read keys through a key-value driver (ADR-010). A task
runs undisturbed from one `await` to the next; each such stretch is an action.

| Code | Model |
|---|---|
| `get_or_load` without a pending future, `_load` up to the first `await` | `BeginOwn`: future and generation, before the driver is asked |
| `get_or_load` with one, `asyncio.shield` | `BeginWait` |
| `driver.get` | `Lookup` |
| `await loader()` | `LoaderReads` |
| the test `_pending.get(key) is entry`, `driver.set` | `LoaderReturns`, `Store`, or `Complete` at once if the test fails |
| `set_result`, `finally` | `Complete` |
| `except BaseException`, `finally` | `Abandon`: the driver or the loader raises, or the task is cancelled, at any `await` |
| a waiter that resumes, or is cancelled | `Resume`, `Leave` |
| `invalidate`, `clear` | `Invalidate` |

What is abstracted:

* A value is the version of a source that the loader has read; `Change` is
  whatever changes it. The code reads neither `valid` (the version at the last
  invalidation) nor `call[t].since`: they are history, to say what is stale.
* A future is named after its owner, which can begin no other one before its
  waiters have been answered.
* The driver may suspend in `get` and `set`, and may raise after it has stored.
  The in-memory driver does neither, the port allows both.
* No caller in the backend invalidates yet, and no loader reads the cache that
  calls it, so the model lets anyone invalidate and has no nested loads, nor the
  `RecursiveCacheLoadError` of the latter.

`ReadThrough` is the promise: a read returns some version that the source has
had since the last invalidation before the read began, or fails. Both modules
have the same `source`, `valid`, `call` and `answer`; all else is hidden, so the
refinement mapping is the identity.

### Filesystem

Every operation is one serialized write transaction, so one action. What is between
two of them is a client's `view`: the row and the rights it has read, whose revision
it sends back with an edit.

| Code | Model |
|---|---|
| `CreationService` | `Create` |
| `HomeService.get_or_provision` | `ProvisionHome` |
| `NodeUpdateService.update_node`: name and parent; the rest | `Place`; `Describe` |
| `_validate_destination`, the unique index on names | `OutsideOf`, `NameIsFree` |
| `DeletionService.delete_file`, `clear_node` | `Delete`, `ClearPolicies` |
| `SharingService.share`, `replace`, `inspect` | `Share`, `Replace`, `Look` |
| `RootGroupPolicyService.save`, `inspect` | `SaveRootPolicy`, `LookAtRoot` |
| `RootProvisioningService.provision` | `Provision` |
| `GroupManagementService`, `FilesystemGroupUsage` | `Register`, `Unregister`, `InUse` |
| `append_discovery_changed`, and the reader that applies the event | `Announces`, `Notice` |

`inspect` may be asked for the grants of one type of recipient, and answers with those
and the revision of the whole policy (`sharing/projection.py:31`, `sharing/service.py:203`);
a client keeps both in its `view`: what the policy was when it was read (`rights`), and
which of it was shown (`shown`). So a client that has asked for users alone may replace or withdraw
the grants of groups without having been shown them; what the comparison of revisions does
guarantee is that no grant is lost that was made or changed after the reading
(`NoLaterGrantLost`).

What is abstracted: content, descriptions and media types are one revision;
a revision of a policy is what it digests, the rows themselves, so that no collision
of digests is modelled; permissions that no operation asks for are not enumerated;
listing and searching change nothing. `announced` says that an event has been
appended since the last reader caught up: `RuntimeProjection` shows what becomes of it.

### Uploads

`Uploads` extends `Filesystem`: while a body is streaming, all its operations go on.
A request is two transactions with a stream between them.

| Code | Model |
|---|---|
| `begin`, `begin_delegated` | `Begin` |
| `put`: load, stream, save | `Put`, `Stage`, `PutSaves` |
| `put_delegated`: claim, stream, consume | `Claim`, `Stage`, `Consume` |
| `ContentService.upload` | `UploadFile`, `Stage`, `SaveFile` |
| any exception before the second transaction; `_release_claim` | `Fail`, `Release` |
| a crash of the process | `Crash`: the claim stays, as `Lost` |
| `complete`, `complete_verified`, the answer to a repetition | `Complete`, `Repeat` |
| the clock passing the two expiries | `Expire` |

What is abstracted: a body is a model value, and a declared size and checksum the set
of bodies that have them; tokens are unguessable, so that who holds one is whoever
calls `Claim`; expired sessions are not swept.
`UploadPromise` is what a client may rely on: a session is filled, completed once,
and answers the same file however often its completion is repeated; `told` and
`Promise`'s `once` are what clients see of it.

### PersonalConnections

Each user has six rows per connector. A flow is one call of a service; it goes to the
provider between its transactions, and may die there. Time is two flags, `late`.

| Code | Model |
|---|---|
| `PersonalOAuthService.start` | `Start`, then `Publish` or `Fails` |
| the callback: `claim`, the exchange, `complete`, `fail` | `Claim`, `Complete`, `Fails` |
| `cancel`, and the expiry noticed by a read | `Cancel`, `NoteExpiry` |
| `PersonalRefreshService.refresh`: `reserve`, `exchange`, `complete`, `fail`, `release` | `ReserveRefresh`, `Exchange`, `CompleteRefresh`, `FailRefresh`, `Release` |
| a tool call that resolves its target, saves an observation, records a rejected token | `Resolve`, `SaveObservation`, `Reject` |
| `set_enabled`, `disconnect` | `SetEnabled`, `Disconnect` |
| `replace` of the OAuth configuration; deletion; publication and grants | `ReplaceConfiguration`, `DeleteConnector`, `Offer` |
| a process that dies, an answer that never comes | `Dies` |
| the expiry of an attempt, the deadline of a claim | `AttemptExpires`, `DeadlinePasses` |

A connection's `credential` and its refresh `token` are two things: a completed refresh
always makes a new credential, but keeps the token if the provider's answer has none
(`adapters/personal_oauth/refresh.py:121`), which is then sent again, and rightly so, since the answer
has left it valid. `TokensAreNotResent` is about the tokens whose answer has not come.

What is abstracted: a credential is the number of the revision that installed it, a token
that of the revision that brought it; an authorization that comes without a refresh token is
not told from one that is never refreshed; the identifiers that the code compares, and orders only by equality, are counters; the
expiry of access tokens, which only decides when somebody refreshes, is left to
chance. `PersonalOAuthAttemptStore.replace_authorization` has no caller. The
definition of a personal connector cannot be edited, only its configuration.

### ToolApproval

| Code | Model |
|---|---|
| reading the configuration; saving it | `Read`, `Upsert` |
| `compare_and_set_invocation_policies` | `Conflicts`, `Updated`, `Changes` |
| deletion of the connector with its policies | `DeleteConnector` |
| an edit or a refresh of the catalogue in flight that brings it back (`core/connectors/downstream_mcp/management/update.py:188`, `core/connectors/openapi/stores/service.py:324`) | `ConnectorReturns` |
| `OrderedToolExecutionPipeline`, up to the policy; the policy; past it | `Begin`; `LetThrough`, `Mint`, `Elicit`; `RunTool` |
| `_evaluate_modern`: verify, refuse, consume the nonce | `Verify`, `Refuse`, `Consume` |
| the legacy elicitation | `Elicit`, `Answered` |
| `filesystem_delete_file` | the same actions with a `FileCommand`, `DeleteFile` |
| a client or a worker that gives up | `Dies` |
| the file edited; the sealed state expired | `Edit`, `Expires` |

A connector that comes back has the same identifier and no policies, so that their
revisions begin at 1 again. `before` counts the questions from before its last deletion, `void` is the
set of the later ones whose policy has changed since. `OldAnswersAreVoid` is about these: the
comparison of revisions in `Verify` excludes them from the moment of the change. It does not
speak of an answer that was verified just before the change, whose call still runs, nor of the
questions from before a deletion, which may be accepted again (see "Disagreements").
`PoliciesChangeAsSeen` needs no such exception: in each life of a connector the
mode alternates, so that a revision says the mode even across lives.

What the user of a modern client reads is the tool's name and "with the supplied arguments"
(`mcp/connectors/native/approval.py:133`); that an answer is about these very arguments is what the sealed
digest compares, and all that `NothingRunsUnasked` says.

What is abstracted: sealing is unforgeable, so a sealed state is one of `asked`;
arguments are model values and their digest injective; the rest of the configuration
document is not modelled. Activation is checked before the policy, as admission does.

### ConnectionPool

Tasks of one event loop; an action is what runs from one `await` to the next.

| Code | Model |
|---|---|
| `get_connection`: the condition's loop | `Ask`, `Wait`, `Refused`, `GiveUp` (cancelled) |
| the reservation, with an idle connection or a new one | `Borrow`, `BorrowNew` |
| `_open_connection` and its cleanup | `Connects`, `ConnectFails`, `Discard`, `DiscardConnects` |
| the body of the `async with` | `Use`, `Leave` |
| `_release`, `_return_capacity` | `ResetSucceeds`, `ResetFails`, `Close`, `ReturnCapacity` |
| `initialize` | `Call`, `Initialize`, `Fails` |
| `close`, `_close`, `_close_connections` | `Stop`, `CheckDrained`, `CloseKept`, `Cleared` |
| cancellation of who waits for the lifecycle lock | `Forsake` |

`live` and `dirty` are the driver's side: what is open there, and what has been used
since its last reset. Cancellation may come at any await but where
`complete_cleanup` shields what is done. A second cancellation at such a place is
awaited through, as the code does. The unpooled provider keeps no state.

`ConnectionLoans` promises that there are never more than `Size` connections, that
each is lent to one borrower at a time, and that none is open when the pool has
closed. The mapping hides who waits, who resets and who opens: a connection is `lent`
while its task is `using` it, and the pool is `closing` from the first sign of it,
which for an initialization that fails is its cleanup (`Phase`).

### Listeners

`host` is where `serve_api` and, in it, `serve_listeners` are; `startup` is the task of
`_ListenerHost.start`, `server` the tasks of the servers.

| Code | Model |
|---|---|
| `ensure_ready`, `_bind` | `Prepare`, `Bind`, `DoNotBind` |
| `start`: lifespans, servers, one `started` after the other | `Enter`, `Entered`, `AwaitNext`, `StartupFails`, `StartupCancelled` |
| the three waits of `serve_listeners` | `Started`, `StopStarting`, `StopServing` |
| cancellation of the host, at any await and any number of times | `Cancel` |
| `_finish_tasks` and its deadline; `close`: `should_exit`, the deadline, cancelling, the lifespans | `FinishStartup`, `Drained`, `Clear`, `LeaveLifespan`, `Left` |
| closing the runtime | `Shutdown` |
| a server listens, dies, exits; requests | `Listens`, `Dies`, `Exits`, `Accepts`, `Answers` |
| a signal | `Signal` |

`behind` is what the host has not waited for to its end: a start-up that outlasts the five
seconds of `_finish_tasks` (`hosting/listeners.py:145`) and goes on while the host closes; servers or
requests that ignore their cancellation, or that a second cancellation during `close` gives up; and
`close` itself, if a cancellation comes while the host is in `_finish_tasks`. This is the await of the
`finally` block that nothing shields (`hosting/listeners.py:306`), so that any cancellation there, the
first one too, skips `close`. `ListenersInv` says what each of these costs and that there is
no other cost: the runtime is always closed; the sockets are, unless `close` is cut away; the lifespans
have ended, unless it is or the start-up is left behind; and if nothing is left
behind, no request is served outside its lifespans, nor after the runtime.

What is abstracted: a deadline may pass at any time. The shutdown of the runtime runs to its end
though it is late or cancelled (`complete_cleanup`); that requests left behind may delay
it is not modelled, nor the process-wide deadline that ends the process by force.

### OpenApiConnectors

A request is a sequence of named steps (`Steps`), each of which is one transaction; an
action takes the request from one to the next, or refuses it.

| Code | Model |
|---|---|
| `create_connector`; `OpenApiConnectorSetupService.setup` | `Create`; `Setup`: the definition is written, `CreateSteps` and `SetupSteps` follow |
| their cleanup after a failure | `Refused`: the request goes on with `DeleteSteps` |
| `import_catalog`, `import_current_catalog` | `ImportSteps`: `ReadHeader`, `ReadRows`, the guard (`Allows`), `Replace` |
| `set_tool_activations` | `ToggleSteps`, `Activate` |
| `publish_connector`, `unpublish_connector` | `PublishSteps`, `Publish`; `UnpublishSteps`, `Unpublish` |
| group permissions, for an operation or for the whole connector | `GrantSteps`, `GrantAllSteps`, `Permit` |
| `delete_connector` | `DeleteSteps`, `Remove`: the definition alone |
| `OpenApiCapabilityExecutionService.execute` with `CapabilityAvailability` | `CallSteps` |
| a read that finds what the request asks for, or not | `Look`, `Passes` |
| a store that raises; a cancellation, a crash | `Fails`, `Dies` |

What is abstracted: a document is the set of its operations; preparing and compiling
it changes no state and may refuse before anything is read. A catalogue has an
identity of its own, so that a row is found only under the header that names it:
`current` says whether the header that a request has read is still that of the
catalogue. The permissions are those of one group. The bearer token, the description
override and the invocation policies are rows that no step reads together with these.
`seen` and `kept` are history: what has been true since a call began, and what has been
listed and granted since an import began.

## Checks

| Run | Shows | Bounds |
|---|---|---|
| `projection` | no change is passed over or rolled back, ready means reloaded, quiet means current, every change is served at last; commits during every phase and a fault at any point | 1 worker, 3 commits of 4 kinds, 1 fault, batches of 2: 163,242 states |
| `connectors_namespace` | public names stay unique when two connectors are renamed, edited, discovered and published at once, and change with an event | 2 connectors, 2 prefixes, 2 tools, whose names collide across prefixes and with a native tool, 1 request, 1 worker, 5 events: 1,061,745 states up to symmetry |
| `connectors_lifecycle` | late results leave no trace; the generation tells all; published connectors stay usable, deleted ones leave nothing; failed discoveries cost no choice | 1 connector, all operations, 2 requests, 1 worker, static and OAuth credentials, generations up to 3 by rotation, 1 tool, 3 events: 370,242 states up to symmetry |
| `connectors_tombstone` | a promise that the code does not keep | 1 connector, 2 requests |
| `cache` | shared loads, the refinement of `ReadThrough`, and `EveryCallEnds` | 1 key, 3 tasks, 2 versions, 2 generations: 32,867 states |
| `filesystem` | the tree, the policies, what revisions stand for, no grant lost that was made after the reading, changes announced | the root and 2 nodes, 2 names, 2 callers, one of them in a group, 1 client with a view of one type of recipient or of both, revisions up to 2, 1 grant at a time: 177,018 states up to symmetry and to what was shown, which decides nothing |
| `uploads` | claims, content and completion; the refinement of `UploadPromise`; writers only; claims are settled | 1 session, 2 streams, 2 bodies, 1 directory and 1 more node: 67,742 states |
| `personal_connections` | what the rows say of each other; listings are true; a token that has been sent is not sent again unless an answer leaves it valid; withdrawn attempts install nothing; no lockout | 1 user, 2 flows, 4 revisions, 2 attempts, 2 configurations, 1 observation: 1,867,912 states |
| `approval` | one execution per answer, for what was asked, under the policy then, in each life of the connector; compare-and-set | 1 tool, 1 file, 1 user, 2 executions, 1 administrator, 3 revisions of the policy and 2 of the file, 1 sealed question: 821,459 states up to symmetry |
| `pool` | capacity and clean connections; the refinement of `ConnectionLoans`; who waits is served, closing ends | 3 tasks, 2 connections, 2 owners: 57,957 states |
| `listeners` | resources last as long as they are needed, but for what the host leaves behind; readiness; the process ends | 3 listeners, any number of cancellations: 364,417 states |
| `openapi` | calls are let through by nothing older than themselves; what is published has a catalogue; imports keep what is granted | 1 connector, 2 operations, documents with 1 operation each, 2 requests: 834,721 states up to symmetry |

Why the bounds are enough to be interesting. Workers share only the database, and
never write what another reads but through an event, so one worker shows what
several do (the theorems hold for any number). Three commits suffice for one
before, one during and one after a load, and two batches; one fault may hit any
action, and the retry after it may meet another commit. With two requests each
pair of operations on one connector overlaps in every order, beside the discovery
task; that the names of two connectors stay unique is checked with one request beside
the task, and proved for any number of either. Two prefixes and two tools give the
smallest colliding name space. Keys of a cache share
nothing, so one is enough; three tasks are an old owner, a new one, and a waiter for either.
A root, a directory and one more node make the smallest tree in which something can be
moved, and moved below what it contains; more levels make the walk to the root longer
and add no case. Two streams of one session overlap in every
order, and with a third the first two would meet it as they meet each other. Users
share no rows of `PersonalConnections`, so one is enough, and of two flows one is old and one
new, whatever they are; four revisions let a connection be authorized, revoked and
authorized again. Answers meet at one nonce, so two executions suffice; three
revisions of a policy are enough for asking, not asking and asking again, so that a question
comes back to the mode it was asked under with a revision that is not its own, and
deletion begins them anew. That two users, or two sets of arguments, are kept apart is shown
in this run by the two versions of a file and a tool, and proved for any number of all. Three tasks on two connections
are two borrowers and one who waits; connections are interchangeable, and a third
name lets one be opened while another is discarded. Three listeners have a first, a
middle and a last. OpenAPI connectors share no rows, and two requests overlap in every
order; of two documents, each drops an operation that the other has.

The bounds `MaxEvents`, `MaxGeneration`, `MaxCommits`, `MaxFaults`, `MaxVersion`,
`MaxGenerations`, `MaxRevision`, `MaxDirectories`, `MaxGrants`, `MaxAttempts`,
`MaxConfigurations`, `MaxInventories`, `MaxPolicy`, `MaxAsked` and `MaxEdits` are guards on the actions that count; the state spaces above are
exhausted within them.

**Deadlock** is checked in the runs of `DownstreamConnectors`, where `Restart` is
always possible, so it says little, and not in `RuntimeProjection`: a system
whose commits and faults are used up, and whose workers have caught up, is quiet.
In `RequestCache` an invalidation is always possible, so that a stuck reader
shows in `EveryCallEnds` and not as a deadlock. It is checked in `approval` and in
`openapi`, where an administrator can always look, and ask, again. It is not checked where the system comes to rest:
a filesystem or a personal connection whose bounds are used up, a pool and a process
that have closed.

**Fairness** (`FairSpec`, liveness only). `WF(Progress(w))`: an event loop runs
every coroutine that can run, store reads return, the poll interval passes, and a
process that died is restarted by its supervisor. `SF(SyncAcquire(w))`: the lock is
an `asyncio.Lock`, which wakes its waiters in the order they came, so a task that
waits for it gets it even if the other task takes it again and again.
`WF(RefreshProgress(w))`: the same event loop runs the discovery task, which never
waits for the main task while it holds the lock. Nothing makes administrators write,
discovery begin, or faults happen; that faults end is the bound `MaxFaults`, i.e.
the property reads "once faults stop". `WF(Progress(t))` of `RequestCache`: the
driver and the loader answer or raise, and the event loop resumes a task whose
future is done. Failures, cancellations and invalidations are not fair, and may
go on for ever. `WF(Settles(t))` of `Uploads`: a request
whose body is stored runs its second transaction or its cleanup; nothing makes a body
arrive. `WF(Passes(u))` of `PersonalConnections`: the clock passes an expiry and a deadline;
flows may die, and users do nothing, for ever. `WF(Borrows(t))` and `WF(Owns(o))` of
`ConnectionPool`: the driver answers or raises, a borrower leaves its block, and the
loop runs who can run; calling, and being cancelled, are not fair. The condition of
the pool wakes all who wait (`notify_all`), and the two connections suffice that no
waiter needs strong fairness in a bounded set of tasks that borrow once each.
`WF(Hosting)` and `WF(Starting)` of `Listeners`: each wait of the host has a
deadline, but for the one that waits to be asked to stop.

### Disagreements

One run shows a promise that the code does not keep; the counterexample is a schedule of
ordinary requests. **A deleted connector may come back** (`connectors_tombstone`): an
edit that was probing its server during the deletion upserts the aggregate.

Read while modelling, and without a run of their own (the model behaves so, too, and
its properties are stated around it):

1. **A failed snapshot is not exposed.** If the reload of the downstream snapshot fails
   in the discovery task (`mcp/connectors/downstream_mcp/runtime/catalog.py:23`), the
   snapshot is marked unavailable, but the worker's health stays ready.
2. **A tool may change without an event.** Whether the change of an activation is
   announced is decided before the transaction (`core/invocation/tools/configuration.py:135`).
3. **The discovery task may end.** A connector deleted between the two reads of its
   refresh raises out of the cycle (`coordinator.py:181`, `discovery_execution.py:134`).
4. **A prefix edit may undo a server edit**: it writes the definition that it read
   (`management/update.py:109`).
5. **A grant may outlive its connector**: the deletion checks grants before, not in,
   its transaction (`management/delete.py:24`).
6. **An import may drop what is granted.** "Active permission grants prevent removing
   OpenAPI operations" (`core/connectors/openapi/errors.py:36`), but the guard reads the
   catalogue in two transactions (`core/connectors/openapi/stores/service.py:207-239`);
   if another import replaces it in between, it is taken for missing and nothing is
   guarded (`management/current_catalog_import.py:95`). `ImportsKeepWhatIsGranted` makes
   this one exception (`Overtaken`); without it TLC finds the schedule.
7. **An operation may come back enabled.** A switch in flight writes the activation of
   an operation that an import has dropped meanwhile; when a later import brings the operation
   back, it is on, though a test expects it to be off
   (`test_removed_then_reintroduced_operation_defaults_disabled`).

8. **A cancelled host may leave its listeners open.** "The host creates and readies one
   analytics runtime [...], then closes it only after both listener lifespans drain"
   (`src/umbod/docs/reference/telemetry-ingestion.md:36`), but a cancellation in
   `_finish_tasks` skips `close` (`hosting/listeners.py:306`), and `serve_api` goes on to shut
   the runtime down with the lifespans open. A start-up that is given up after
   its five seconds has the same effect. `NothingIsLeft` makes these two exceptions.

Not disagreements with anything written, but worth knowing:

* An answer may outlive its connector. If a connector is deleted and comes back (the
  run above), a question that was asked in its first life, with revision 1, is accepted in
  the second, if a policy of revision 1 asks again, within the five minutes that a
  sealed state lasts (`mcp/connectors/native/approval_state.py:21`). `OldAnswersAreVoid` is about each life by itself.
* A client that asked for one type of recipient may replace the grants of the other
  unseen, since the revision is that of the whole policy ("Even filtered reads carry the revision
  of the whole policy", `src/umbod/docs/reference/filesystem-sharing.md:57`).

* A snapshot may be torn. Loaders read one store after the other in separate
  transactions, so a commit in between leaves a state that the database never had,
  until its event is polled; `QuietReadyWorkerIsCurrent` shows that it is gone then.
  Requests still read one snapshot object, replaced as a whole.
* Whether a connector exists is asked before the transaction that writes its policies
  (`core/administrator/connector_configuration/mutation.py:222`), so that rows of a
  deleted connector may be written, which a later life of it finds. `PoliciesChangeAsSeen` and
  `OldAnswersAreVoid` hold with them.
* A claim of a delegated transfer whose process has crashed is never given back: the
  grant is used up. `ClaimsAreSettled` is about requests that go on.
* An import in flight revives a deleted OpenAPI connector, with the publication, the
  activations and the grants that the deletion has left. `CallsAreAllowed` speaks of what is
  there when a call comes, and is kept.
* The call of an operation reads the operation and the header, with the server, in two
  transactions (`core/connectors/openapi/execution/service.py:551`), and may send a request
  of one catalogue to the server of the next.

## Proofs

Every safety property of every passing run, invariant or action property, is proved, and
so are the three refinements. The theorems hold for all values of the constants that satisfy
the assumptions of the modules: the constants that count are natural numbers, `None` and
its like are none of the values they stand beside, things of different kinds are different,
the tables that describe a system fit together (each projection is in one stage, each
configuration has a kind of credential), and the tasks of a pool are finitely many
(`ProjectionAssumption`, `ConnectorsAssumption`, `CacheAssumption`, `FilesystemAssumption`,
`UploadsAssumption`, `PersonalAssumption`, `ApprovalAssumption`, `PoolAssumption`,
`ListenersAssumption` and `OpenApiAssumption`). So there may be any number of workers, stores,
projections, connectors, requests, names, batches, faults, tasks, keys, versions, nodes,
users, groups, sessions, flows, questions, owners, connections, listeners, operations and
documents. `Filesystem` and `Uploads` have one module of proofs, since the second extends
the first, and so have `ConnectionPool` and `Listeners`, what lasts as long as a process.

| Module | Theorem | Property |
|---|---|---|
| `RuntimeProjectionProofs` | `TypeCorrect`, `Invariance` | `TypeOK`, `IInv` |
| | `NoEventLostCorrect` | `NoEventLost` |
| | `ReadyMeansReloadedCorrect` | `ReadyMeansReloaded` |
| | `QuietReadyWorkerIsCurrentCorrect` | `QuietReadyWorkerIsCurrent` |
| | `BootstrapMissesNothingCorrect`, `NoRollbackCorrect` | the action properties |
| `DownstreamConnectorsProofs` | `TypeCorrect`, `Invariance` | `TypeOK`, its `IInv` |
| | `PublishedNamesAreUniqueCorrect`, `ConnectorsInvariance` | `PublishedNamesAreUnique`, `ConnectorsInv` |
| | `CatalogueChangesAreAnnouncedCorrect` | `CatalogueChangesAreAnnounced` |
| | `CatalogsMatchCorrect` | `CatalogComesFromCurrentConfiguration` |
| | `ToolChoicesCorrect` | `ToolChoicesSurviveFailedDiscovery` |
| `RequestCacheProofs` | `Invariance`, `LoadsAreShared` | its `IInv`, `SharedLoads` |
| | `Refinement` | `ImplementsReadThrough` |
| `FilesystemProofs` | `FilesystemInvariance` | `FInv` |
| | `NamespaceInvariance`, `SharingInvariance` | `NamespaceInv`, `SharingInv` |
| | `RevisionsCorrect`, `NoLaterGrantLostCorrect` | `RevisionsIdentifyVersions`, `NoLaterGrantLost` |
| | `ChangesAreAnnouncedCorrect` | `ChangesAreAnnounced` |
| | `UploadInvariance`, `UploadsCorrect` | `UInv`, `UploadInv` |
| | `WritersAddFilesCorrect` | `WritersAddFiles` |
| | `UploadsKeepTheirPromise` | `ImplementsPromise` |
| `PersonalConnectionsProofs` | `Invariance`, `PersonalInvariance` | its `IInv`, `PersonalInv` |
| | `ListingIsTrueAlways` | `ListingIsTrue` |
| | `TokensAreNotResentCorrect` | `TokensAreNotResent` |
| | `WithdrawnAttemptsCorrect` | `WithdrawnAttemptsInstallNothing` |
| `ToolApprovalProofs` | `Invariance`, `ApprovalInvariance` | its `IInv`, `ApprovalInv` |
| | `OldAnswersAreVoidCorrect`, `FilesGoAsShownCorrect` | `OldAnswersAreVoid`, `FilesGoAsShown` |
| | `PoliciesChangeAsSeenCorrect` | `PoliciesChangeAsSeen` |
| `ProcessProofs` | `Invariance`, `PoolInvariance` | the `IInv` of the pool, `PoolInv` |
| | `Refinement` | `ImplementsLoans` |
| | `ListenersInvariance`, `ReadyMeansListeningCorrect` | `ListenersInv`, `ReadyMeansListening` |
| `OpenApiConnectorsProofs` | `Invariance`, `OpenApiInvariance` | its `IInv`, `OpenApiInv` |
| | `ImportsKeepCorrect` | `ImportsKeepWhatIsGranted` |

**The projection.** `NoEventLost` relates the checkpoint to what has been loaded,
and is not inductive: the checkpoint advances in one step, the loads that justify
it take many. `IInv` adds, for every worker, what the partial load of either task
already reflects (`BufferInv`), which projections of the current round reflect the
batch (`AppliedInv`), and who may be loading the snapshot (`LockInv`). The lock is
what makes it work: the discovery task may have read the first store before the
batch was committed, and publishes over what the main task has loaded; `BufferInv`
says that its buffer covers the batch whenever the main task has left the
snapshot behind, because it can only have begun after that. `Partial` says that
no buffer is older than what it will replace, from which `NoRollback` follows, which is
about the loaded projections and says nothing of the checkpoint.
`StreamInv` ties the stores to the stream. The proof has one lemma per action;
lemmas about `Covers` and about the three ways a load goes on (`ReadEffect`,
`PublishEffect`, `DiscardEffect`) serve them all, and `Conclude` gathers the parts.

**The connectors.** `PublishedConnectorsAreUsable` rests on
`CatalogNeedsCredential`, and the uniqueness of names on
`NothingOfADeletedConnectorRemains`, since a new connector collides with nothing
only if its identity is not already published. `IInv` is their conjunction. Names are
handled by a lemma about `UniqueNames`: fewer published connectors, and changes
at unpublished ones, keep it. `GenerationFencesEverything` needs no strengthening
but types: an admission that is not current any more is one whose generation has been left behind.
The action properties need only types (`ProperSteps`, `AnnouncedSteps`): a discovery is
applied where the whole admission is still the one that it began with, its definition with it.

**The request cache.** That a read returns nothing stale needs to know what the
driver holds under the generation in use: `FreshInv` says that a value under the
current generation of a key is no older than the last invalidation of the key,
and that one at the address of an owner is no older than the owner's call. The
two meet in `PendingInv`: an owner whose address is current is the pending one,
and was called under the present `valid`; that is what a write after an
invalidation would break, had the address not been captured before. `SharedLoads`
makes a store disturb no one but the owner, and `WaitersHaveLeaders` carries an
owner's value to its waiters. Every step then maps to a step of `ReadThrough`:
`BeginOwn` and `BeginWait` to `Begin`; `Complete` and the answered `Resume` to
`Return`; `Abandon`, `Leave` and the failed `Resume` to `Fail`; what an owner does
in between to a stutter.

**The filesystem.** That the nodes stay a tree is the only property that a step may violate
far from where it acts: a move is refused below what it moves, and `MoveKeepsTree` shows
that this is enough: a set of nodes closed under parents would have been one before.
What a revision stands for is not inductive, since a deleted row and one that comes in its
place might carry the same revision. `FInv` adds that identities are given once
(`IdentityInv`), and what a client holds (`ViewInv`): its row is older than the node's, or
the same one, and the digest it holds is of the whole policy that it has read, shown or
not, so that a policy that still matches loses nothing that came after the reading. Creating, moving, describing and
deleting each have a lemma about the row they change; what only touches policies goes
through `PolicyStep`.

**The uploads.** `UInv` adds to `FInv` what a stream has found and claimed (`StreamInv`,
`ClaimInv`), what the file of a session holds (`FileInv`) and what has been told of it
(`ResultInv`). Two sessions could come to one file only if an identity were given twice,
and a file could lose its content or its owner only by a step of the namespace: both are
`FilesKept`, which every step of `Filesystem` is shown to keep (`OwnersLast`,
`NamespaceStep`). A step of the uploads concerns one session and one stream;
`Elsewhere` says so once for all of them. For the refinement, `Begin` maps to `Begin`;
`PutSaves` and `Consume` to `Fill`; `Complete`, by the fresh identity of its node, to
`Finish`; all else, with the whole of `Filesystem`, to a stutter (`LooksStay`).

**The personal connections.** Users share no rows, so that the proof is about one user
(`UserInv`, `OneUser`) and the connector. `AttemptInv` ties the identity of an attempt that is
going on to the last one withdrawn: the user's switches withdraw it by advancing a
revision, without looking for the attempt, and the invariant says why that is enough.
`SentInv` is what keeps a refresh token from being sent again: the token of a
connection has not left, or an answer has left it valid, or its claim remembers that it has left and
lets nobody else reserve it. `DiscoveryInv` says that the
discovery row is the projection of the others whoever has written last, which with
`ObservationInv` makes `ListingIsTrue` follow.

**The approvals.** `ExecutionOK` says, at each step of a call, what the steps before it
have established: that the question is about the very command, that the nonce is
consumed, or that no answer was needed under the policy at hand. Between two deletions
the revisions of a connector's policies only grow (`RevisionsGrow`), so a question asked before a change has
a smaller revision until the next deletion, which takes it out of `void` (`QuestionsInv`). In every
life the first revision asks and each next one is of the other mode: `ModeAt` gives the mode
of a revision by its parity, and `SeenInv` says that the page of an administrator shows
`ModeAt` of the revisions on it, from whichever life it is. A revision that is
compared and found equal therefore says the mode that she saw.

**The connection pool.** The capacity is a count of tasks, and no step changes one
without the other; but that a new connection may be opened needs to know where all
the open ones are. `IInv` (in `ProcessProofs`) says so: `OwnSteps` where tasks and
owners can be, `HandsInv` that no two hands, and no hand and the available ones, hold
the same connection, `LiveInv` that what is open is available or in somebody's hand,
`CleanInv` that what is dirty is in the hand of a task, `OwnersInv` that only the owner
with the lifecycle lock is opening or closing and what that says of the state, and
`RoomInv` that the open connections, and those that are coming, fit into the
capacity that is reserved. `PoolInv` is part of it. Every step then maps to a step of
`ConnectionLoans` or to a stutter: `Connects` to `Lend` for a task, for an owner to `Open`
and, with the last connection, to `Start`; `Borrow` to `Lend` and `Leave` to `Return`;
`Close` and `CloseKept` to `Close`; `Cleared` to `Stopped`, and the first step of closing
to `Stop`.

**The listeners.** `ProcessIInv` says what the host has opened and closed at each of its
steps (`HostInv`), what can have been left behind by then (`BehindInv`), how far the start-up
has come, be it one that the host still waits for or one that it has given up
(`StartupInv`), that servers run within all the lifespans and requests within the servers as long
as nothing is left behind (`ServersInv`), and who has asked for a stop (`AskedInv`). `StackIsLeft` is the
two cases in which lifespans may stay open. That all listen when
readiness begins rests on the last conjunct of `StartupInv`: a server that has been waited for listens or has
ended, so that the check after the last one, which looks at all of them, finds those that
have ended in the meantime.

**The OpenAPI connectors.** Both properties are about a request that has come through a
sequence of steps, so `IInv` (in `OpenApiConnectorsProofs`) says at every step what the ones
before it have shown: `Looked`, that every check that a call has passed is in its
history; `Prepared`, that a publication past its second step has a catalogue, which no
step takes away again; `Keeps`, that what an import must keep is in what it has read once
it has read it, and in the document once the guard has let it pass. That no other
request interferes is one lemma for all of them: whoever acts, a request stays, ages
(its header is no longer current), moves by one step, begins, is undone or ends
(`Courses`), and a move past a check has seen the store that it leaves. `Sequences`,
`ImportOrder` and `Places` are what the proof needs to know of the sequences of steps.

Only model-checked: the liveness properties `EveryChangeIsServed`, `EveryCallEnds`,
`ClaimsAreSettled`, `NoLockout`, `PoolIsLive` and `ProcessEnds`, which are beyond the prover,
and the counterexample. The parts of the inductive invariants are proved and not run.

## Not modelled

`PROJECT.json` gives each component's status. Open are the capabilities within a
downstream connector (permissions per tool, description overrides, prompts and
resources), the bearer tokens of OpenAPI connectors, connectors' public paths, and the
directory of identities. Left out for good are the frontend, the command line, the SDK,
telemetry, icons, identity providers and the presentation layers (no shared state of
their own, or none that outlives a request), how content is stored in files or objects,
and the SQL drivers, whose serialized write transactions the model takes as atomic steps.
