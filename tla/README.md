# Verification of ai-edge

TLA+ models of the ai-edge platform (control plane, regional gateways, edge
agents), TLC configurations that check them on small instances, and TLAPS proofs
that the safety properties the passing runs check hold for any size of the system.
Definitions keep the names of the Go code they model; `PROJECT.json` maps each of them
to its source lines.

Run `tlc -config TaskEngine.cfg MCTaskEngine` and the like for the runs listed
below, and `tlapm TaskEngineProofs.tla` and the like for the proofs.

## 1. The system

| Component (source) | State | Operations | Interacts with |
|---|---|---|---|
| Task engine (`internal/task`) | tables `tasks`, `task_runs`, `task_events` | CreateTask, CancelTask | everything that delivers work |
| Gateway dispatcher (`gateway/dispatcher.go`) | none of its own | PushRegionalTask (one transaction per node), NotifyIdentityEvent | task tables, identity cache |
| Gateway agent service (`gateway/agent_service.go`) | none of its own | PullTasks, ReportTaskResult, ReportHeartbeat, ReportRuntimeState, ReportMetrics | task tables, `edge_nodes`, `edge_runtime_states` |
| Identity cache and interceptor (`gateway/identity_cache.go`, `auth.go`) | map fingerprint -> entry with TTL | Lookup/loadFromDB, HandleIdentityEvent, Clear | `edge_identities` |
| Gateway autonomy (`gateway/autonomy.go`) | connectivity flag | probe loop with its callbacks, Sync | identity cache |
| Artifact cache (`gateway/artifacts.go`, `cache.go`) | files `<model>`, `<model>.tmp`, table `gateway_cache_entries` | serveModel, fetchFromUpstream, Touch, EvictLRU | object store, agents' downloads |
| Gateway registry (`gateway/gateway_service.go`, `self_register.go`, `cmd/edgectl/gateway.go`) | table `gateways` | create, update, delete, list, self-registration with its lookup | gateways, edgectl |
| Onboarding (`internal/onboarding`, `internal/pki`) | `bootstrap_tokens`, `edge_nodes`, `edge_identities` | token administration, Bootstrap, Renew, RevokeNode | identity cache through the database |
| Deployments (`internal/deployment`) | `model_deployments` | Create/UpdateDeployment, the controllers' reconcile loop | task tables, `edge_nodes`, `edge_runtime_states` |
| Agent task runner (`agent/task_runner.go`) | `processed` set, goroutines, `pending-results/` | Run, poll, executeAndReport, drainPendingResults | gateway agent service |
| Agent model download (`agent/downloader.go`, `model_executor.go`) | `model.bin`, `model.bin.part`, version directories | InstallModel, DeleteModel, pruning | artifact cache |
| Agent self-update (`agent/updater.go`) | binary, `.new`, `.bak` | UpgradeAgent | systemd |
| Agent identity (`agent/bootstrap.go`, `cert_renew.go`) | key, certificate and identity files | bootstrap, renew | onboarding through the gateway's proxy |
| Agent runtimes (`internal/runtime`, `agent/runtime_executor.go`) | the adapter's map of running models | start, stop, restart, upgrade, status | task runner |
| Rollout checker (`deployment/rollout.go`), retry helpers (`task/retry.go`) | none | judgements on a rollout; backoff, classification of a result | nothing calls them |
| Model registry (`internal/model`) | table `models` | create, get, list | artifact cache |
| Servers (`cmd/apiserver`, `cmd/gateway-runtime`), generated API, edgectl | listeners, calls in progress | start, GracefulStop, Shutdown, db.Close; REST to gRPC; proxy | each other |

What is hard in it: several gateways and controllers work on one database with
stale reads between their statements; a push is a loop of transactions; agents
crash, restart and lose answers between two effects on disk or in the database;
every task, request and download is a goroutine of its own and many share a file
path; caches outlive what they were read from. The `hazards` of `PROJECT.json`
list each of these at its line.

What makes each part correct, in one line each:

* task engine: a NodeTask is delivered at most once and only through a gateway
  its row admits; the event log explains the row; runs are the node's reports;
* task runner: executed at most once over crashes; stored results are true; a
  result that was saved is eventually stored; a cancelled task does not start;
* onboarding: a token admits no more nodes than its budget and none once dead; one
  live identity per serial; revocation is final;
* identity cache: a request passes only as a node of that gateway; a revoked node
  is locked out for good in the end;
* deployments: tasks are created once per Pending; a settled deployment is not
  touched by a controller with an old list;
* artifact cache, download, update: what is in place is whole (and signed), and
  there is always something to start;
* agent identity: the files that load are one identity, and its certificate is the
  one on record;
* registry: a name has one id for ever; listings: a walk through the pages is exact but
  for the exceptions its property names;
* runtimes: a task answers what it did, or what another did to its model meanwhile;
* servers: stopping ends, and no handler is left on a closed database.

## 2. Modules

| Module | Models | Composes |
|---|---|---|
| `TaskStateMachine` | statuses, transition table, status normalisation (pure operators) | |
| `TaskLedger` | abstract specification: what the task engine promises | |
| `TaskEngine` | the task tables and every handler that writes them | `TaskStateMachine` |
| `TaskRefinement` | the refinement mapping from engine to ledger | `TaskEngine`, `TaskLedger` |
| `RetryPolicy` | the backoff a retry policy asks for | |
| `TaskRunner` | the agents' runner over the engine | `TaskEngine` |
| `Onboarding` | tokens, registration, renewal, revocation | |
| `AgentIdentity` | one agent's identity files, process and connection | `Onboarding` |
| `IdentityCache` | gateway caches, the interceptor and the connectivity monitor | `Onboarding` |
| `IdentityLedger` | abstract specification: the registry of identities a client of onboarding sees | |
| `OnboardingRefinement` | the refinement mapping from onboarding to that registry | `Onboarding`, `IdentityLedger` |
| `Rollout` | RolloutChecker (pure operators) | |
| `Deployment` | deployments, controllers, heartbeats, runtime states | `Rollout` |
| `OneController` | abstract specification: all controllers as one that is never late | |
| `DeploymentRefinement` | the refinement mapping from the controllers to that one | `Deployment`, `OneController` |
| `ArtifactCache` | the model registry, the gateway's artifact endpoint and cache table | |
| `AgentTasks` | task types, goroutines and the table of executors | |
| `ModelDownload` | model files on a node | `AgentTasks` |
| `AgentUpdate` | the agent's binary and its upgrades | `AgentTasks` |
| `AgentRuntime` | runtime lifecycle tasks and log collection | `AgentTasks` |
| `GatewayRegistry` | the gateways table and everyone who registers in it | |
| `Listing` | the seven List operations and a client's walk through their pages | |
| `ApiSurface` | services, routes, registrations and calls (pure definitions) | |
| `Servers` | apiserver and gateway-runtime from start to exit, and requests in them | `ApiSurface` |
| `TaskEngineProofs`, `TaskRefinementProofs`, `TaskRunnerProofs` | theorems | `TaskEngine`, `TaskRefinement`, `TaskRunner`; the third builds on the others |
| `IdentityProofs` | theorems | `Onboarding`, `OnboardingRefinement`, `IdentityCache`, `AgentIdentity` |
| `DeploymentProofs`, `ArtifactCacheProofs` | theorems | `DeploymentRefinement` with `Rollout`, `ArtifactCache` |
| `AgentExecutorProofs` | theorems | `ModelDownload`, `AgentUpdate`, `AgentRuntime` |
| `ControlPlaneProofs` | theorems | `GatewayRegistry`, `Listing`, `Servers`, `RetryPolicy` |

`MC*` modules add symmetry sets and function-valued constants for TLC. Three of them explore components
that share no state in one run (`MCTaskEngine`: the engine and the backoff;
`MCAgentExecutors`: the three kinds of executors; `MCControlPlane`: registry, listings,
servers): each moves while the others are in an initial state, so the run is the union
of the separate explorations, not their product. Operators
whose comment begins with "Mutant of" are plausible bugs of the operation that
follows them. No specification uses them: they show which slip each property
catches.

**Atomicity.** A handler body inside `store.DB.WithTx` is a serializable
transaction, hence one action; an aborted one is a stuttering step. What the code
does outside a transaction is split where another actor can intervene:
PushRegionalTask per node, Renew into read and write, Lookup into hit, read and
store, reconcile into list, node list, counts and commit, every file operation on
its own.

**TaskEngine.** Rows keep scope, parent, status, gateway, node, dispatch status and
owner; payloads, timestamps and `retry_count` (never changed by a handler) are left
out. `FOR UPDATE SKIP LOCKED` is the set `locked`, chosen freely at every pull.
`AtomicClaim` needs no expired-claim branch because its only caller claims a row it
has just inserted.

**TaskRunner.** An RPC is answered, committed with the answer lost, or failed.
`processed`, goroutines and the reply are lost in a crash; `disk` is not.
`os.WriteFile` is two steps, so a torn file exists. `outcome` and `execs` are history.

**Onboarding.** The signer is a counter. `SerialTaken` is both the SELECT of
Bootstrap and the partial unique index on `serial`; they differ only for the empty
serial, which the index does not exempt. `AuditRowAccepted` says whether
`task_events` accepts the audit row of RevokeNode. With the migrations of the
repository it is FALSE: `task_events.task_id` references `tasks`, RevokeNode writes
an identity id there, PostgreSQL aborts the transaction and the commit rolls back,
so no revocation ever takes effect (run `onboarding_revoke`). All other runs take
TRUE, as the code intends, because nothing about revocation could be checked
otherwise; up to the history variable `asked`, a behaviour with FALSE is one with TRUE in
which RevokeNode never happens.

**AgentIdentity.** The device has one token and one gateway and sends no serial, as the
agent of the repository. Every file write is a step, a crash falls between or inside
them. Key and certificate are known by the certificate's number. The agent gives a renewal
up when its 30 s run out (`AgentRenewTimeout`), and when a write of its files fails, with the
file whole or truncated, and lives on (`AgentRenewWriteFails`). A renewal whose caller
is gone still writes (`OrphanedRenewal`): the answer an agent waits for is that of its
latest one (`Awaited`). `marks` is history: it names the windows
of the code that nothing closes, a renewed certificate that did not reach the agent's files
and a registration cut off over an older one's; the invariants say that there is no
other. The proxy drops the client certificate, so as deployed every Renew is refused;
renewal is modelled for a caller the apiserver recognises, because nothing about it
could be checked otherwise. The refused Renew changes no state.

**IdentityCache.** A TTL is the fact that it has passed. Caches share nothing but
the database, so the caches of the gateways in `Observed` are followed; identities
are registered at all `Gateways`. The monitor's recover callback starts Sync in a
goroutine of its own: `syncs` counts those not yet run. Token administration is left
out of `IdNext`: it can only prevent registrations, which is also possible by not
registering.

**Deployment.** `Target` stands for gateway and label matching, `ModelOf` for the model
a deployment names. The transaction of reconcileOne is two steps, because it counts the
runtime states through a connection of its own (`store.go:367-381`): `ReconcileCounts` locks the
row and counts, `ReconcileOne` commits. A row is `Locked` between them; agents' reports go on. `dispatches` and `resets` are history. The tasks a dispatch
inserts are `CreateDeploymentTask` of `TaskEngine`. RolloutJudged compares what a
controller writes with `Rollout!SuggestPhase`, which the controller never asks.

**The abstract specifications.** Each is what a client may rely on, in a state of its own.
TaskLedger has no transactions, locks or pushes in progress. IdentityLedger has no tokens,
and a renewal is one step: in the mapping, a certificate signed by a Renew is not yet spent
until that Renew has written. OneController has no lists and no failures: in the mapping, a
deployment not yet created is `absent`, the nodes that have been online are `reached`, and a
controller's transaction is a Look at the counts when it locks the row, and one Dispatch, one
Judge or GiveUp when it ends.

**ArtifactCache, ModelDownload, AgentUpdate.** Paths lead to inodes: a rename moves a
path, an open file descriptor keeps its inode. Content is a sequence of chunks.
`ruined` and `shared` record the files that two actors wrote: the code has no lock
there, and the invariants state exactly how far the damage goes. `Contended` in
ModelDownload names versions that several tasks may install at once; it is empty in
the run because nothing can be claimed of such a version (see section 6). The model
registry is part of ArtifactCache: a row is inserted once per name and version, with
one of two artifact locations, and chunks carry the location they come from, so a file
made of two artifacts is not whole. `unevicted` is history: the evictions that a failed
statement or a restart abandoned since the last one that was completed. `dirs` keeps the
modification times of the version directories as their order: each with those touched
after it. A prune removes one of the listed directories at a step, as the loop does.
serveModel fetches only if os.Stat says that there is no file; with any other error it goes on
to Touch (`StatFails`). `unseen` is history: the models whose request went on so, and which the cache
table may list without a file.

**AgentRuntime.** The adapter locks its map for one Start, Stop or Status at a time;
Restart, an upgrade and the status a task reports are several such sections. A task's `before`,
`started` and `stopped` are history: whether its model ran when it began, and what other tasks did to
the model meanwhile. A start of a model that runs
and a stop of one that does not fail; beyond that a task fails, or reports another state than it
left, only on account of what others did.

**GatewayRegistry.** CreateGateway and the lookup in a page of ListGateways are two calls
with others in between; either answer may be lost. Deleted rows keep their name, as the
unique index does.

**Listing.** The seven lists share one scheme and differ in three flags: whether COUNT
and a token exist, whether the store caps the limit, whether the filter is on a column
that changes. COUNT and SELECT are separate steps. ORDER BY created_at has no tie-breaker, and
the rows of one transaction share the time it began: `CreatedAt` may give rows one value, such
rows come in one insert, and a SELECT takes any of them for the positions they share (`Pages`).
`cut` is history: the rows among whose equals the end of a page fell.

**RetryPolicy.** Nothing in the repository retries a task, so there is no loop to model, only
what NextBackoff returns for a policy, whose `retryCount` nothing changes. ClassifyResultStatus and the error types beside it are left out (section 6).

**ApiSurface, Servers.** ApiSurface lists the methods of the generated services, the
routes in front of them, what each main registers, and the calls the programs make. In
Servers a request is where it is on its path; what a handler does is the other modules'
business. TLS is whether the first server demands it and the caller speaks it.

## 3. Runs

| Run | Checks | Shows |
|---|---|---|
| `task_engine` | TypeOK, EventLogExplainsStatus, DeliveredAtMostOnce, RunningIsOwned, ImplementsLedger, BackoffDoubles | two gateways, two nodes, one push in progress, all handlers in any order; the engine refines the ledger; beside it, the backoff on both sides of its cap and of the overflow |
| `task_runner` | ExecutedAtMostOnce, RunsAreTruthful, CancelStopsDelivery, FileOutlivesReport | two agents, a crash and a fault (lost or failed call, failed file operation) anywhere |
| `task_runner_live` | EveryTaskEnds, SavedResultIsReported | liveness with two crashes and no lost call |
| `onboarding` | TokenBudget, OneLiveIdentityPerSerial, DeadTokenStaysDead, RevocationSticks, FilesAgree, PresentsKnownCertificate, ImplementsRegistry | one agent with its files, crashes, timeouts, failed writes and lost answers, among other registrations, renewals and revocations; onboarding refines the registry |
| `identity_cache` | ServedAtHome, RevokedIsLockedOut | lookups that race renewals, revocations, events and syncs |
| `deployment` | DispatchedOncePerPending, DesiredIsDispatched, SettledUntouched, RolloutJudged, ImplementsOneController | two controllers with stale lists and counts, two deployments of one model, a user; the two refine one controller |
| `artifact_cache` | TornOnlyBehindAWriter, RowHasFile, CacheBounded | three requests for two models at two locations, cache of one row |
| `agent_executors` | SuccessIsIntact, ResumePoint, BinaryRecoverable, SignedOnly, RuntimeOutcomeExplained | two goroutines; downloads of two versions, one kept; three upgrades; four runtime tasks; a crash anywhere |
| `control_plane` | OneIdPerName, LookupFindsRow, WalkIsExact, HandlersKeepDatabase, CallsAreServed, ServersStop | two clients registering three names; walks over a changing table with a tie; requests while both servers start, stop and die |
| `task_runner_terminal` (violation) | TerminalIsFinal | a late report overwrites Cancelled |
| `onboarding_revoke` (violation) | RevokeTakesEffect | the audit insert undoes every revocation |
| `onboarding_serial` (violation) | EmptySerialNeverConflicts | the second node without a serial is rejected as a clone |

**Bounds.** Two tasks let a region task and its expansion, two competing NodeTasks,
or a task and a cancellation meet, and `PullMax = 1` makes the LIMIT bite. Reports
per task are bounded by `MaxRuns` in `Next` only. `Reported` has one raw status of each
kind the normalisation distinguishes (an alias, another alias, one rejected); the
agents of TaskRunner report `success` and `failed`. Two nodes and two gateways are
enough for a right and a wrong owner. `RetryCounts` surrounds the cap (4, 5), the
count from which a product is only compared with it (27, 28) and the one from which the
conversion of NextBackoff leaves its range (32, 33). One token with two uses lets the device register twice,
or once beside another node; four certificates leave room for a renewal of each. The
device has two crashes, lost answers, timeouts or failed writes in all, so that one can follow on the
repair of another.
In `deployment` the first deployment selects both nodes, the second none, so that it stays in
every list; one update is a pause, a reset or any other phase set at any point of
two controllers' work. Two chunks are the fewest for
which a file can be torn, resumed or mixed; three requests are needed for one to
remove or rename what a second verified while a third writes. One fault or crash can
fall at any step; upgrades have two, and need three to reach a file that is opened
while an earlier upgrade is between its renames. With two versions and one kept a prune has one
victim at a time; the proof has any number. `PageLimit = 2` with three names
pushes a row out of the page that is searched. Limits of 1 and 2 instead
of 20 and 100 make pages of a table of four rows end inside it, at its end and past it,
and a page size of 3 exceeds the cap. Two of the rows are of one transaction: pages end
before, between and after them. Two requests and one start of each server let every call
meet every phase of both; one kill can fall at any step.

**Deadlock** is checked in `artifact_cache`. The others may really stop: all tasks finished,
all nodes registered, all updates used, all upgrades made, both servers down.

**Fairness.** `FairSpec`: systemd restarts a stopped agent (Start); a goroutine makes
progress (Execute, Save, Report, drain steps); the poll ticker keeps firing, and row
locks last only for a transaction, so a pull with nothing locked recurs. Nothing is
assumed of lost calls, crashes or users. `IdFairness`: a TTL passes, and a lookup that
has read the database stores what it read. Nobody has to send an event. `SrvFairness`: a
request inside a server moves on (handlers make a bounded number of statements, attempts
to connect end), and main goes on when what it waits for is there; nobody has to send a
signal or start a server. ServersStop then rests on the order of the code: GracefulStop
first closes the listener, so the calls it waits for run out, and a call that waits for
the other server ends when that server refuses or dies. A TTL, a ticker and the 10 s of
Shutdown are the only clocks the models rely on.

## 4. Proofs

TLC checks the instances of section 3; the theorems hold for all values of the constants
that satisfy the ASSUMEs of the modules. These say that bounds are naturals, that the
constants which name a subset name one (`Observed` of the gateways, `Reported` of the raw
statuses), that NULL is none of the values it stands beside, and that sets that are
counted (nodes, requests, goroutines) are finite. TLC evaluates them in every run.
Each proof has the same shape: an inductive invariant, a lemma that the initial
state has it, one lemma per action (or kind of action) that keeps it, and a last temporal step.
Most of the invariants the runs check are not inductive; what follows says what had to be
added and why.

**Task engine** (`TaskEngineProofs`). `TypeCorrect` proves TypeOK, which also says that ids not
inserted are blank (insertions need it) and that a call in progress has a node left (`Head(todo)`
needs it). `DeliveryAtMostOnce`, `AuditTrailCorrect` and `OwnershipCorrect` prove
DeliveredAtMostOnce, EventLogExplainsStatus and RunningIsOwned together from `DeliveryInv`:
every row with its log is `Good`. The log chains to the status; the status is never
Retrying, so the constant old status of the delivery event is true; a Pending row has no
delivery yet, so that the pull adds the first; an owner's gateway is one the row
admits; a Running row is Delivered and owned. `MovedIsGood`, `InsertedIsGood` and
`PulledIsGood` are the three things a handler does to a row.

**Refinement** (`TaskRefinementProofs`). `EngineImplementsLedger`: every behaviour of TaskEngine is
one of TaskLedger. `RunsNumbered` is the extra invariant: the attempt number of a run is its
position, because LatestAttempt reads the last row. Insertions (a creation, a dispatch,
the expansion of a node of a push) map to Submit, a pull of some tasks to Take, a cancellation
to Withdraw, a report to Report; the rest of a push and an empty pull map to stutters.
`SystemImplementsLedger` (`TaskRunnerProofs`) says the same of the engine with its agents, who
report as often as they like: the bound on reports in the engine's Next is not needed for it.

**Agents on the engine** (`TaskRunnerProofs`). A step of the composition is an engine step or none,
so `DeliveryInv` carries over. `RunnerInv` follows each task on each node: nothing of it
exists before it was handed over, at most one execution starts after that (this is where
at-most-once delivery is needed), and the outcome of that execution is what the goroutine,
the file and the acknowledged run carry. From it `ExecutionAtMostOnce`, `RunsTruthful`,
`CancellationStopsDelivery` and the action property `FilesOutliveReports`.

**Identities** (`IdentityProofs`). For Onboarding, `OnbInv` adds to the budget and the serials that the
rows of a node and of its identity appear together with one status, and that a Renew in
flight has an identity: `BudgetHolds`, `SerialsUnique`, and the action properties
`DeadTokensStayDead` and `RevocationIsFinal`. The last rests on `RowsAgree`: a Bootstrap
fills only an absent identity, and the write of a Renew leaves the status as it is by then. For the caches, `CacheInv` says of every entry and every load in
flight that its node exists and belongs to the entry's gateway, which no step of onboarding
changes: `ServedOnlyAtHome`. For the device, `DeviceIsAClient` shows that AgentIdentity
implements Onboarding, so its tables keep all these promises, and `DevInv` says for each
phase of the agent what its files, the writes still to come and the renewals in flight
are. A connected agent dialled with a certificate of the node its files name (`Same`), and a file
that a failed write tore (`Whole`), or a Renew nobody waits for (`Unwaited`), is a window that `marks` names.
`FilesAreOneIdentity` and `AgentIsKnown` follow; their exceptions are the windows in `marks`.
`AuditRowAccepted` is arbitrary: with FALSE, the value of the repository, the theorems hold as well.

**The registry of identities** (`IdentityProofs`). `RegistryKept`: Onboarding implements
IdentityLedger, and `RegistryKeptUnderAgents`: so does it with the device as its client. The
extra invariant is `UnderWay`: the certificate a Renew carries was signed, and no other Renew
carries it. Without it the one that writes first would spend the certificate of the other. A
Renew maps to a stutter when it reads and to Replace when it writes, after a revocation too; a
Bootstrap maps to Admit, whose clause about serials is the SELECT with the unique index behind it.

**Deployments** (`DeploymentProofs`). For any number of controllers with stale lists: `DispatchOnce` and
`DesiredMatchesTasks` from `Once` (dispatches plus one if Pending never exceed one plus
the resets) and `AsSent`, both about one row and its dispatches; the action properties
`SettledIsLeftAlone` and `JudgementsAgree` from types alone, since the transaction reads
the row again before it writes. `JudgedAsSuggested` is the lemma about `Rollout`: controller
and checker judge the same counts alike, and a batch that may proceed stays within the allowance.
`ControllersActAsOne`: however many there are, they implement OneController. `ListsHold` is
what a controller may still rely on when its lists are old: they name created deployments, and the nodes
read for one were selected by it and online. The rest is read again under the row's lock, which is why a
stale list maps to a stutter at worst; the count it judges against is the number of tasks of
the latest dispatch (`AsSent`). That the counts a controller commits with are those that the one
controller's Look took rests on `OneHolder`: no two hold the lock of one row.

**Artifact cache** (`ArtifactCacheProofs`). `TornFilesHaveAWriter` rests on `FilesInv`: a file belongs to
one model and one path (`OneHome`), and at all times it is whole, ruined, or some request
that writes it finds everything it has written since it truncated it (`Filled`); other
requests that write the same file can only fill in what belongs there. `RowsHaveFiles` needs that a
request past its fetch has a file in place, or could not look for one (`unseen`). `TableIsBounded` needs that recording
an access adds one row at most and none twice, and counts the requests before and after each step. The attempt to prove an earlier form of CacheBounded, which allowed for one
abandoned eviction only, failed: with three models a restart abandons two at once. The
form proved counts them.

**Agent files and runtimes** (`AgentExecutorProofs`). `BinaryStays` and `BinaryIsSigned` rest on `UpInv`: no
two paths lead to one file, what is at the binary's path and at `.bak` is trusted,
nobody has it open, and what an upgrade has verified is still at `.new` when it is put
in place, unless the file was `.new` for two upgrades. `RuntimeAnswersTruthful`: `RtInv` says
for each task what is left to do, and that the model is as the task left it unless another
started or stopped it since. `InstallsStayIntact` and `PartsCanBeResumed`: `DlInv` adds that a file belongs to one version
and how far the one download of a version has come (`Stage`: it asks for what is missing, writes where
its file ends, and holds a verified file at the end). A prune keeps it directory by directory
(`RemoveKept`, `PruneKeeps`): what another task has under way in a removed directory is lost with it. Both hold for
any set `Contended` of versions that several tasks install at once, and claim nothing of those;
the run leaves it empty.

**Registry, lists, servers, backoff** (`ControlPlaneProofs`). `RegInv`: rows are never removed or renamed, names are
unique, and a client looks up only a name some row has; `RegistrationIdempotent` and
`LookupSucceeds` follow. `ListInv` compares, for each row that matched throughout, the walk's
offset with the number of newer rows and of the rows that tie with it (`From`, `Upto`): a page
holds all rows of one created_at whose positions it holds (`PageHolds`), so only a row cut from its
equals escapes. `WalksAreExact`. `SrvInv` says of each request how deep
it may be in its path and of each phase of a stop which handlers are gone:
`DatabaseOutlivesHandlers` and `CallsReachServices`. The second also needs that every route and every call
of the programs leads to a registered method, which is decided from the definitions of ApiSurface.
`BackoffGrows` is the doubling of the backoff for every retry count. The prover knows nothing of
powers and cannot do an induction over data: that 2^(n+1) is twice 2^n is proved by counting
subsets (`PowerStep`), the few powers below the cap follow (`Powers`), and from there on the
backoff is the cap until the product leaves int64 (`BackoffIsSpaced`).

**Only model-checked.** Liveness, which the prover cannot do: EveryTaskEnds,
SavedResultIsReported, RevokedIsLockedOut, ServersStop. Every other property of a passing run
is a theorem. The three violations, of course, have none.

## 5. Plan

The components are modelled as far as section 7 says, and every safety property of a passing
run is a theorem. What could still be added:

1. The binary on a node as a register of trusted releases, and a proof that AgentUpdate
   implements it while no two upgrades share a file.
2. Action properties that the inductive invariants now make cheap: a delivered task keeps its
   owner, a run is never changed, a verified binary is only replaced by a verified one.
3. Liveness by hand-written leads-to chains, should a prover for ENABLED become available.

## 6. Where code and documents disagree

Shown by runs: the three violations of section 3. Met while modelling, and visible in
the models as behaviours, without a run of their own:

* PullTasks moves Pending to Running; `task/state_machine.go:62` has no such transition.
* PushRegionalTask creates a second NodeTask when it is sent again
  (`docs/design/07-api-spec.md:491-495` asks for idempotency), and nothing in the control
  plane calls it, or NotifyIdentityEvent.
* ReportTaskResult stores a repeated report as another run (`07-api-spec.md:366`).
* A task that was executing when the agent crashed stays Running for ever, and a crash
  during the file write loses its result (`openspec/specs/edge-agent/spec.md:39`);
  this is the `Stranded` case of EveryTaskEnds. An upgrade restarts the agent before its
  own result is saved and so strands its own task.
* A report that failed is sent again only after a restart (`edge-agent/spec.md:47`).
  A lost answer to a pull strands its tasks; `task_runner_live` therefore excludes
  lost calls.
* `identity_cache.go:95` says events remove entries immediately; a lookup that read the
  database before the event stores its entry after it, for one TTL.
* Readiness is counted by model over all nodes, not over the subtasks
  (`openspec/specs/model-management/spec.md:33`, `docs/design/09-sequence-flows.md:155`): a
  deployment can be Active before the nodes it was sent to have reported, and is then not
  looked at again. A rollout dispatches to all nodes at once (`spec.md:45`,
  `deployment/rollout.go:16-17`).
* The gateway does not verify the checksum of what it caches (`spec.md:19`). A fetch that
  is cut off while another request renames their common file leaves a torn file that
  nothing repairs; agents' checksums then fail for ever. Eviction deletes rows, no files.
* `downloader.go:19-21` says the checksum is verified before committing; it is verified
  after the rename. A complete `.part` file left by a crash is answered 416 at every later
  attempt. Two installs of one version at once can spoil a verified file.
* After a crash between the two renames of replaceBinary nothing restores `.bak`. Two
  upgrades at once can install a file neither of them verified. `cmd/edge-agent/main.go:80`
  configures no key, so the agent as built skips signatures; `agent_executors` checks the
  updater with a key.
* Renew through the gateway's proxy carries no client certificate and is rejected, so
  the renewal loop of the agent cannot succeed there; the agent never calls
  ReportRuntimeState or ReportMetrics; parent tasks are never aggregated.
* Bootstrap dials without TLS although the gateway's TLS demands a client certificate of
  everyone, while `gateway/auth.go:41-42` exempts Bootstrap: with TLS configured no node
  can register through it. With mTLS the agent downloads by https from a plain HTTP server.
* The gateway has no route `/v1/logs`, so CollectLogs with the default URL fails always.
* CreateGateway without labels fails on the NOT NULL column, against the comment at
  `gateway_service.go:263-265`; so do `edgectl gateway register` without `--label` and a
  gateway that registers itself without labels.
* ListIdentities and ListBootstrapTokens return no `next_page_token`
  (`openspec/specs/api-contracts/spec.md:22-25`); a page size above 100 skips rows in the
  three lists whose store caps it.
* The task types RevokeNode and DeployModel have no executor on the agent.
* Without CA paths every start of the apiserver makes a new self-signed CA.
* NextBackoff is negative from retry_count 33 on where the float64 conversion wraps.
* ClassifyResultStatus looks at the message and the budget only (`task/retry.go:71-79`), and
  answers Retrying for an unrecoverable error with budget left. Its comment
  ("recoverable + budget left", `retry.go:70`), UnrecoverableError ("a permanent failure that should
  not be retried", `retry.go:48`) and `openspec/specs/task-engine/spec.md:35-39` say Failed;
  `task/state_machine_extra_test.go:258-265` expects Retrying. Nothing calls it, or retries a task.
* The lists order by created_at alone (`task/store.go:164`), and the tasks of one dispatch, inserted in one
  transaction (`deployment/controller.go:206-231`), share the default of the column, the time
  the transaction began (`000005_create_tasks.up.sql:26`): a walk can skip or repeat such rows where
  a page ends among them, though no row came or left.
* serveModel fetches only if os.Stat says "does not exist" (`artifacts.go:82`). After another error it
  records the model in the cache table, then fails to open the file.
* `downloader.go:163-164` says the most recent versions are kept; a version that is installed again between
  the listing and the loop (`:200-206`) is removed all the same.
* RevokeIdentity hands the id of the request, an identity's, to RevokeNode, which takes a node's
  (`identity_service.go:137`).
* PullTasks executes statements in a transaction whose query is still being read
  (`agent_service.go:113-144`); whether that works is up to the driver, and the tests mock it. The model
  takes it to work.
* The admin interceptor is not installed, AutonomyGuard never constructed, RolloutChecker and
  IdempotencyChecker never consulted; nothing but SQL writes runtime profiles.

## 7. Not modelled

Cryptography and TLS beyond who demands and who speaks it; PostgreSQL, HTTP and the object
store (external, by how the code uses them); signing (a counter); TimeoutExceeded and
IdempotencyChecker, a query that no handler makes; the admin interceptor, which no server
has; SyncGatewayStatus, which only answers counts; UpdateNode (labels, which `Target`
fixes) and runtime profiles (which only reach payloads); metrics, the content of logs,
flags and output of the commands; the messages of the generated API, which are plain data;
reads that answer one row (Get), except where a protocol depends on them.
