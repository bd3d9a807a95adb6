# Station Core: TLA+ verification

Station Core is the control service of a small installation ("station") that runs
applications on a cluster. It authenticates administrators, keeps the registry of
installed applications in PostgreSQL, carries lifecycle commands and managed version
transitions out against a separate service (Runtime), keeps a volatile picture of what
collectors report from the cluster, and serves all of that over HTTP.

This directory holds TLA+ modules for the parts that keep state and are worked on by
several actors, TLC configurations that check them on small instances, and TLAPS proofs
for every value of the constants. `PROJECT.json` maps each definition to the lines it
models.

To repeat the checks: `tlc -workers 2 -config X.cfg M` for the pairs in the table of
runs, and `tlapm M.tla` for each module `M` whose name ends in `Proofs`.

## 1. Inventory

| component | state | operations | interacts with |
|---|---|---|---|
| Lifecycle admission (`operations/service.go`, `installations.go`, `preinstalled.go`, `appcenter_commands.go`) | tables `app_operations`, `app_installations`, release bindings, audit | `Submit`, `SubmitPreinstalled`, `SubmitAppCenter` | HTTP handlers call it; shares tables and the App advisory lock with transitions |
| Lifecycle worker (`operations/worker.go`, `appcenter_dispatch.go`) | the row lock and transaction of one dispatch | `Run` / `DispatchOne` every second | gRPC to Runtime, 8 s deadline within a 10 s step |
| Managed transitions (`transitions.go`, `transition_dispatch.go`, `transition_worker.go`, `transition_transport.go`) | table `app_installation_transitions`, session lock per transition, the loop's cursor | `SubmitTransition`, `RunTransitions` / `DispatchTransition` | HTTP to Runtime, 25 s timeout within a 30 s step |
| Forward recovery (`forward_recovery.go`) | table `app_installation_forward_recoveries` | `SubmitForwardRecovery` | same session lock; HTTP to Runtime |
| Release readers (`transition_releases.go`, `dashboard_*.go`) | none; read documents | validate what a transition names | called by admission |
| AppCenter (`operations/appcenter*.go`, `appcenter/facts.go`) | none of its own; reads tables, catalog, memory, Control, Runtime | facts (a card with candidates), admission of a command | HTTP handlers; `submit`; market; observation memory |
| Namespace migration (`namespace_migration.go`) | workspace, start and execution rows | one transaction, then a reset of the memory | HTTP, or a command in a process of its own; Runtime writes the same rows |
| Observation memory (`appstate/memory.go`, `collector_*.go`, `stream_http.go`) | per-collector sessions, objects, bindings, revisions, all volatile | open, list, watch, sample, heartbeat, project, expire, reset | collectors over HTTP streams; snapshot readers |
| Application snapshots and notifications (`appstate/store.go`, `state.go`, `notifications.go`, migration 0018) | scope and item revisions, catalog table, what was published | `Snapshot`, `SyncCatalog`, triggers, `Publisher.step` | database, observation memory, catalog, etcd |
| Egress proxies (`egress/`) | proxy rows with a probe lease, probe slots | save, delete, test | network probe outside the transaction |
| Identity (`identity/`) | accounts, sessions, tokens | bootstrap, login, me, refresh, logout, bind, delegate | every handler; an operator on the same tables |
| Catalog and market (`catalog/`) | entries, tag, version answers, misses, a cache file | load, refresh, resolve | Control over HTTP |
| Telemetry (`telemetry/`) | cached sample | read, refresh | metrics API |
| HTTP gateway (`gateway/`) | none of its own | routes | everything |

What is hard here:

* **Two engines over one table.** Operations and transitions are kept in different
  tables and advanced by different loops; both change `app_installations`. Exclusion is
  a convention: every submitter takes the Station/App advisory lock and looks at both
  tables. The lifecycle worker takes no App lock at all.
* **Calls inside and between transactions.** `DispatchOne` calls Runtime while it holds
  a row lock. `DispatchTransition` reads, calls for up to 25 s without a row lock, and
  commits against what it read. A call may have been executed although its reply was
  lost, and an HTTP request given up by Core may be executed later.
* **Optimistic revisions.** Transitions, recoveries and AppCenter commands rely on an
  installation revision naming one state of the row.
* **Retries by someone else.** After a crash or a lost connection another process
  continues from the rows; a pending forward recovery is continued only by a client
  that sends the same idempotency key.
* **Fairness of two loops**: the worker orders by `updated_at`, the coordinator goes
  round by identifier.

* **Locks held in one place and relied on in another.** A login, a refresh and a
  delegated effect exclude each other by row locks of different strength on two tables;
  a proxy test by a lease that must outlive its own deadline.
* **Answers put together from several reads**: a snapshot from database and memory, an
  AppCenter card from rows, catalog, observations and releases, a market list from a
  document and one request per version.
* **Clocks and absence.** The memory concludes from silence: that an application is
  absent, that a sample is too old, that a connection is dead.

What makes each part correct is stated in section 4.

## 2. Modules

```
Installations          the shared tables: rows, keys, busy queries, common properties
  +- AppOperations     admission of operations, worker, Runtime's operation record
  +- Transitions       managed transitions, coordinator, forward recovery, Runtime's journal
       \  /
     Lifecycle         both engines over the same tables
       LifecycleProofs        types, exclusion, revisions; transitions and operations
                              against the installation; Core's rows against Runtime's
                              journal; the refinement of AppRegister
AppRegister            what the lifecycle promises of an application

Observations           what the memory shows of what it was told (no state)
  +- Collectors        the observation memory and its streams
       CollectorsProofs       who owns an inventory, what ready and absent rest on
StateFeed              revisions, snapshots, catalog synchronisation, notifications
  StateFeedProofs      what a revision stands for
AppCenter              cards, candidates, admission
  AppCenterProofs      cards and admissions agree
Market                 the catalog of Control's market
  MarketProofs         the tag and the list
NamespaceMigration     moving an application's rows to another namespace
  NamespaceMigrationProofs    rows, executions and places after any migrations
Sessions               accounts, sessions, credentials
  SessionsProofs       row locks, tokens, counters
ProxyRegister          what the egress service promises
  +- EgressProxies     the table, leases and requests that implement it
       EgressProofs    refinement and exclusion, theorems

MC<module>             the small instance of a module
```

The modules meet at the state they share. `Lifecycle` composes the two engines over one
set of tables. The others see their neighbours through the few values the code takes
from them: `StateFeed` keeps of the memory a content and a revision that moves with it,
which is what `Collectors` shows (`RevisionNamesState`); `AppCenter` keeps of the market
a listed version and the versions it answers for, and of the memory the last report;
`NamespaceMigration` keeps of the memory the place of the application.

### Installations

A table is a function from the keys in use to rows. Keys are UUIDv7 in the code, of
which only the creation order matters: they are numbers. A release (binding, snapshot)
is its version and a tag for all of its content digests. The binding tables
`preinstalled_installation_bindings` and `preinstalled_operation_bindings` are the
`release` field of the row they belong to, which is how the code reads and writes
them. `ReinstallRemovedID`, which the code keeps only as part of `request_hash`, is the
field `reinstall`. `audit` holds the lifecycle events; they serve as history
("published") in properties.

### AppOperations

* `submit` is one transaction under the App lock. For plain and AppCenter commands all
  it reads is either locked (`FOR UPDATE`) or read once, so it is one action. For
  preinstalled commands `validatePreinstalled` reads the history without a row lock and
  the busy query reads again, and the worker may commit in between: the submission is
  two actions, `AdmitPreinstalled` (which takes the App lock, variable `applock`) and
  `submit`, with `RefusePreinstalled` for the error returns after the first.
* A refused submission, or one whose key was used before (a replay), changes no row
  and is a stuttering step.
* The catalog may offer any version at any time. An inventory revision or an expected
  revision is taken as current at the read that checks it: a stale one is refused.
* `DispatchOne` is `Pick` (oldest active row, `FOR UPDATE SKIP LOCKED`), `Reconcile`
  (the call), and one of `Record`, `Postpone` (the row is only touched), `Refuse`
  (the error returns that roll back) and `Abort` (crash, lost connection, deadline).
* `updated_at` is the start of the writing transaction. The relation `ahead` orders
  rows, and a worker stands in it for the time its transaction began. The order of
  submissions is their commit order, and ties between equal times are not modelled.
* Runtime (`exec`, external) keeps a record per operation: a finished operation is
  replayed with its outcome, and only an operation it does not know is rejected. This
  is what `worker.go` relies on when it retries ("A failed/lost RPC leaves the original
  operation available for reconciliation"). A gRPC deadline is propagated to Runtime,
  so an operation request is not executed after the worker gave it up.
* `SourceRecovery` stands for the fixed list in `video_source_recovery.go`.

### Transitions

* `SubmitTransition` is one transaction under the App lock. `compatibleTransition`
  keeps the version order; the data contract and worker compatibility it also demands
  are part of the release content and only refuse more.
* `DispatchTransition` takes the session lock, reads transition and installation and
  chooses the request; `coord` keeps what it read. `Answered` is Runtime's reply,
  `commitTransition` re-reads under the App lock and commits, `Abandon` is every other
  end, `Restart` also loses the cursor. Losing the pooled connection loses lock and
  commit together, as both are on that connection. The request may survive (`late`)
  and be executed by `LateRequest` at any later time.
* `Outcomes` is the table of answers `DispatchTransition` accepts for each mode.
* `acceptForward`, `RetryForward`, `finishForward` are `SubmitForwardRecovery`.
  `ForwardRule` stands for the one recovery the code registers.
* Runtime (`journal`, `verdict`, external) is assumed to record a phase before it
  answers it, to move only along the phases of the protocol, to read Core's row again on
  each call (so that it acts on active transitions and pending recoveries only, the
  comment at the head of `transition_dispatch.go`), to keep `prepared` against a late
  request, and to keep the verdict of a forward recovery. These are assumptions about a
  program that is not in this repository.

### Lifecycle

Interleaves the two. `main.go` starts both loops and the HTTP handlers in one process,
and two processes share the database during a rolling update, so workers and
coordinators are sets.

### AppRegister

The abstract specification of the lifecycle. It has no tables, workers, locks, calls or
journal: for each application an installation or none, the job at work on it or none, and
what was removed and settled. A job is accepted for an idle application only (`Accept`);
an operation ends in one step that says what the application then is (`Succeed`, `Fail`);
a transition publishes its target once and can then only complete, or ends without
publication at its source or at the version of a registered recovery (`Publish`,
`Complete`, `GiveUp`, `Recover`). Identifiers of jobs and installations are never used
twice.

`Lifecycle` maps its tables to it (`InstalledNow`, `RemovedNow`, `JobsNow`, `SettledNow`)
and is shown to implement it, by TLC and by proof. A client that sees the register need
not know that operations and transitions are in different tables, that a dispatch may be
lost or repeated, or that a late request may reach Runtime: all of these are stuttering
steps. In particular a job changes an application at its end or at its publication and at
no other time, and nothing but the application's own job changes it.

### Observations and Collectors

* Every method of `Memory` holds `m.mu` from its first line to its last, so each is one
  action: `Open`, `Close`, `Begin`, `Objects`, `End`, `Upsert`, `Delete`, `Heartbeat`,
  `Health`, `Views`, `Expire`, `ResetAppBindings`. The projection that most of them end
  with (`projectAll`) is part of the action.
* A collector may open a new connection while the handler of the lost one still holds a
  session; `Receive` delivers its frames to whichever session it has. A frame the
  handler refuses ends the connection, which is `Close`.
* `Views` is called with the registry the caller read in a transaction before, hence
  with any registry of earlier or present installations; at `MaxBindings` it gives up
  bindings that the caller does not name.
* The clock is the process's; `TTL` and `FullSync` are its two terms. Nothing is
  persisted, so a restart is the initial state with another boot id.
* `probe` and `vacant` are history: when each connection last reported a successful probe
  of a workload, and when a frame last reported a place as empty. `vacant` is `None` where
  a reset dropped the workload that a frame had reported.
* `ResetAppBindings` also drops objects that name the application but no installation of
  it; which of the foreign objects these are is any choice.
* Limits on the number and size of frames, and `catalogPosition` (the trusted place of
  an application that is not installed), are left out.

### StateFeed

* `mark_app_state` and `app_state_business_changed` are the trigger functions of
  migration 0018; they run in the transaction that changes the row.
* `SyncCatalog` is two actions, its read and its write, in one transaction under an
  advisory lock; `RefreshMarket` changes the catalog of the serving process beside it.
* `Snapshot` reads the database in one repeatable-read transaction (`SnapshotBegin`),
  then the memory (`SnapshotEnd`), and joins the two revisions.
* `Publisher.step` is `CollectRows`, `Collect`, and for each organization in turn `Skip`
  or `Publish`. A `Put` succeeds, is lost, or is applied although the client gets an
  error (`Outcomes`); only the first is remembered in `last`.
* Each `Put` has a lease of 120 s that nobody keeps alive, and an unchanged revision is
  skipped (`notifications.go:198`, 241), so a hint vanishes after its term although its
  publisher lives (`LeaseEnds`). This is by design: `notifications_test.go` refuses an
  unchanged state that is published again, and a hint is for those who watch at the time.
  What watchers were told is therefore kept apart, as the history `told`.

### Sessions

* A request is the `SELECT` that takes its row locks, and everything up to `COMMIT`.
  `withSession` holds the session `FOR UPDATE` and the account `FOR SHARE`,
  `withDelegatedMember` the account `FOR SHARE`, `Login` the account `FOR UPDATE`. A
  `SELECT` that waited reads the row as it then is (READ COMMITTED), and finds none if
  the token was replaced meanwhile.
* Tokens are numbers given out in order; a password is right or wrong.
* The operator (external) suspends accounts, ends memberships and raises the security
  version; its `UPDATE` waits for the locks above.

### ProxyRegister and EgressProxies

* `ProxyRegister` has no lease, token, slot or clock: a probe is one step on the revision
  the card shows. `EgressProxies` is shown to implement it by TLC and by proof, with
  `Card` as the mapping: revision, status and result of the row.
* `Test` is `Get`, `TakeSlot`, `TakeLease` or `LoseLease`, `StoreResult` or `Interrupt`,
  and the deferred `Cleanup`, each a statement of its own in the code. `Crash` ends all
  requests of a process and leaves their leases; `CleanupFails` is the deferred statement
  that did not reach the database.
* A probe returns any verdict: how its samples are graded is in `probe.go` and has no
  state.

### NamespaceMigration

* `Begin` takes the locks and checks the installation, `MoveOne` is one turn of the loop
  over the workspaces of the request, `Rollback` the end of the transaction after any
  error, `Commit` may lose its answer, `Reset` clears the memory after it. `tx` is the
  tables as the open transaction sees them; nobody else sees it before the commit.
* The transaction holds the workspace lock, under which Runtime records executions, and
  the application lock, under which an application is installed. The removal of an
  installation, by the lifecycle worker, waits for neither, and may fall between any two
  steps of the transaction (`Reinstall`).
* The rewriting of JSON columns is modelled by what it changes in them: namespace,
  cluster address, hash, secret.
* `Schema` is the set of constraint variants the code provides for, since the two tables
  differ between stations: whether the columns must agree with the JSON, and which of
  two spellings of a hash each table accepts.
* As in the code, rows are selected by their volume claim, not by application, and a
  request whose installation is no longer the active one moves Runtime's rows and not
  the application's.

### Market

* `RefreshMarket` is `RefreshSend`, `RefreshAnswer` (not modified, or a document), one
  lookup after the other for the versions it lists, `RefreshStore` and `RefreshSave`.
  A lookup is answered from the answers kept for the life of the process, refused for a
  while after a miss or a failure, or asked of Control. One version without an answer
  fails the whole refresh and the list stays as it was.
* `ResolveHelm`, called by requests, goes through the same two caches at the same time.
* The file is written after the list was taken and read at a start that cannot reach
  Control. What a chart contains is one bit: whether the answer carries one.
* `RefreshStore` replaces the list always and the tag only if the answer carries one
  (`market.go:302-304`), so a new list may be held under an older tag. A tag is the number
  of the document: no later document has it again. That is an assumption on Control
  (observation 8).

### AppCenter

* A card is built in four reads (`ReadRows`, `ReadCatalog`, then `ProjectResolve` and
  `projectCandidate` for each candidate), between which anything may change.
* A command names what it was shown. Admission, under the App lock, is `Enter`,
  `Resolve`, `Revise`, `CheckInstallGrant` and `Admit`, which inspects the workload at
  Runtime, inserts the operation and raises the installation's revision
  (`bindInstallationOperation`).
* `Enter` reads the installation `FOR UPDATE` and the transaction ends with the
  admission, so the end of a running operation (`Finish`), which takes the same row, waits
  for it: `UpgradeRises` rests on that lock.
* `Submit` is the other branch of `submit` (`service.go:141-149`, reached by
  `POST /app-commands`): a plain command of either organization for the listed version,
  with `reserveInstallation`'s rules and no grant. `Plain` says which of them come in; the
  proofs are for any set of them. Every operation carries the branch that admitted it
  (`by`), and `UpgradeRises` and `GrantIsFresh` are about AppCenter's.
* `Finish` ends an operation of either branch, succeeded or failed, by
  `recordInstallationProgress`; an operation without a row changes none. What Runtime does
  to the workload (`Executed`) is external, and after a failure it may have done it or not.
  Transitions, which also write the row, need it idle and are in `Lifecycle`.
* The policy revision, a digest in the code, is the tuple it is computed from. The
  content of a release's template, and with it the comparisons of `TemplateDigest`
  (`appcenter_candidates.go:90-98`, `appcenter_admission.go:256`), is left out: a release
  is its version.

## 3. Runs

`CHECK_DEADLOCK FALSE` everywhere: with the bounded tables full, the clock at its bound
and every job settled the system rests, as it does when no client asks for anything.

| run | cfg | bounds | states | result |
|---|---|---|---|---|
| queue | MCOperations_queue | 2 apps, 3 operations, 2 workers | 276 k | passes |
| reinstall | MCOperations_reinstall | install, delete and preinstalled install of 1 app | | violated: finding |
| transitions | MCTransitions_safety | 1 app, 3 versions, 2 transitions, 2 recoveries, 2 coordinators | 1.3 M | passes |
| liveness | MCTransitions_liveness | 2 apps, 2 transitions, 1 restart, lost calls | 189 k | passes |
| lifecycle | MCLifecycle | 1 app from an empty database, 3 versions, 2 users of 2 organizations, 2 operations, 2 installations, 1 transition, 1 recovery | 1.9 M | passes |
| collectors | MCCollectors | 1 collector, 2 connections, 2 namespaces, 2 installations of 2 organizations, 1 binding, 3 revisions, clock to 3, terms of 2 | 383 k | passes |
| feed | MCStateFeed | 2 organizations, 1 app, 2 changes, 2 snapshots, 1 restart; snapshots and publishing not interleaved | 1.7 M | passes |
| sessions | MCSessions | 2 users, 2 requests at once, 2 sessions, 4 tokens, lockout after 2 failures, clock to 3 | 954 k | passes |
| proxies | MCEgressProxies | 1 proxy, 3 requests in 2 processes, 1 slot each, deadline 2, lease 3, clock to 4 | 498 k | passes |
| migration | MCNamespaceMigration | 3 instances, 3 requests, 3 schema variants, 1 execution, 1 repetition | 1.5 M | passes |
| market | MCMarket | 2 apps, 3 documents, 1 resolving request, 2 restarts | 320 k | passes |
| appcenter | MCAppCenter | 1 app, 2 versions, 1 client, plain upgrades and deletes, 2 workload identities, 4 revisions | 4.1 M | passes |

Why the bounds suffice for the cases of interest. Three operations on two applications
allow install, delete and reinstallation, or an operation of the other application
behind a slow one. In *lifecycle* two operations, a transition and a recovery meet on one application, through
the three kinds of entry point and from both organizations. A reinstallation needs a
third operation and is in *queue*; the second installation key of *lifecycle* is there for
a step that would insert a row beside the current one. Two successive transitions allow
an upgrade and its rollback, so that a late request of the first meets the second; two
recoveries allow a rejected one followed by another. Applications interact only through
the queues, hence two of them there and one elsewhere. Two connections are one lost and
its successor; a clock one tick longer than the terms lets a sample be carried over a
relist, expire and be renewed. Three revisions let a binding be given up and added again. One binding for two installations puts every second reader at the limit. Two
changes, a restart and two snapshots are the fewest with which a torn or repeated
revision could show. Two requests at once are what a row lock tells apart; tokens for a
login, its refresh and the refresh after it. Three testers allow a probe that lost its
lease, its successor and a third that finds the lease of either; that a lease expires and
is taken over from a probe that still runs is beyond the clock of *proxies* and rests on
the proof. In *collectors* a workload is sighted under one identity, which the proof
generalises. Two restarts and three documents allow a list kept in the file, or held
under an older tag, to be two documents old. Readers and the publisher write nothing that
the other reads, so *feed* does not interleave them. Of the plain commands *appcenter*
takes the upgrade, which may name a lower version, and the delete, which takes the row
away under a card; four revisions are an installation, the end of it and one command more.

Keys, coordinators, connections, requests, users and workload identities are interchangeable
(symmetry);
runs with temporal properties use no symmetry, except for the action properties and
the register of the applications, which only compare the two states of a step (keys are
no part of the register). Run *liveness* takes the first application and
key by a condition of its own (`InOrder`).

### Fairness

* `DispatchFairness`: `Run` starts `DispatchOne` every second (weak fairness of `Pick`
  and `Refuse`), and a worker whose dispatches go on for ever does not lose all of them
  to crashes: strong fairness of `Record \/ Postpone`. No fairness of Runtime is assumed;
  it may answer "running", or not at all, for ever.
* `SchedulerFairness`: `RunTransitions` starts a dispatch every second and its context
  ends it after 30 s, by a commit or otherwise (weak fairness of start and of end).
* `CooperativeRuntime` (run *liveness*, for the second transition only): asked again and
  again, Runtime in the end answers, and in the end completes the preparation, restoration
  or release it was asked for, and not every such answer is lost. Without this no
  transition need end. Of the first transition nothing is assumed.
* `StateFeed!Fairness`: `Publisher.Run` steps every second, and etcd, asked again and
  again for one organization, does not fail every time. A lease that is not renewed ends
  (weak fairness of `LeaseEnds`).
* `Market!Fairness`: the loop in `main.go` refreshes while the process is up, every call
  ends at its deadline, a miss is forgotten after its term, and Control does not fail
  every time it is asked the same.
* Forward recoveries have no fairness: no loop in the code retries them.

## 4. Properties

| property | says | run |
|---|---|---|
| `OneActiveJob` | at most one operation or transition of an application is active, though they are in two tables | lifecycle; proved |
| `ImplementsAppRegister` | the tables are the register of the applications: one installation and one job at most, changed by that job only, and nothing settled or removed comes back | lifecycle; proved |
| `SameOrganization` | jobs name only installations of their own application and organization | lifecycle; proved |
| `ActiveJobsHeld` | a worker or a coordinator never holds a settled job, no two hold the same, an active transition has its application installed | lifecycle; proved |
| `RevisionAdvances` | every change of an installation raises its revision; rows never vanish | lifecycle; proved |
| `TypeOK` | types of all variables | lifecycle; proved |
| `ResultApplies` | the result of an active operation is never dropped or refused | lifecycle; proved |
| `InstalledVersionConfirmed` | an installed version is one that Runtime confirmed | lifecycle; proved |
| `OutcomeAgrees` | Core settles an operation the way Runtime did | queue; proved |
| `NoStarvation` | every active operation is dispatched | queue |
| `RecoveryOwnsTransition` | a pending recovery has its active transition to itself between its tries | transitions; proved |
| `TransitionOwnsInstallation` | nobody else changes the installation of an active transition | transitions; proved |
| `NoStaleCommit` | what a dispatch read is still so when it commits | transitions; proved |
| `RuntimeAgrees` | the target is released only after publication, a terminal status says what Runtime did | transitions; proved |
| `AlwaysAnswerable` | Core's next request is always one that Runtime can answer and Core accepts | transitions; proved |
| `PublishedNeverReverts` | a published version is never undone by its own transition | transitions; proved |
| `EveryTransitionEnds` | a transition ends once Runtime cooperates on it, whatever the others do | liveness |
| `ReadyIsProbed` | ready is shown only on a probe of this workload and version within its term, over the connection that reported it | collectors; proved |
| `AbsentIsWitnessed` | absent is shown only while a recent frame said so of that place, or where a reset dropped the workload | collectors; proved |
| `OneConnectionOwnsInventory` | the inventory of a collector is one connection's complete list | collectors; proved |
| `RevisionNamesState` | whatever an organization is told differently, its revision moved, and never back | collectors; proved |
| `RevisionNamesAnswer` | two snapshots with one revision say the same | feed; proved |
| `HintSettles` | when changes end, every organization has been told of the present state and etcd holds no other hint, through lost and ambiguous writes, ended leases and restarts | feed |
| `GuessesBounded` | between two starts of the count at most the allowed number of wrong passwords is compared, however many logins run | sessions; proved |
| `EffectIsPermitted` | while a delegated effect runs its member is permitted | sessions; proved |
| `OneHeir` | a token is refreshed at most once | sessions; proved |
| `LogoutIsFinal` | after a logout was answered no request on the session succeeds, not even one already under way | sessions; proved |
| `OneBootstrap` | parallel bootstraps make one account | sessions; proved |
| `ImplementsRegister` | the proxies are the register without leases: no late result on an edited proxy, active means a passed probe of the present revision | proxies; proved |
| `OneProbePerRevision` | two probes of one revision never run at once | proxies; proved |
| `DeleteWaits` | a proxy is not deleted under a probe of its present revision | proxies; proved |
| `RowsCoherent` | a workspace row says the same in columns, binding and starts | migration; proved |
| `ExecutionsFollow` | every execution is where its workspace is | migration; proved |
| `PlaceIsNew` | after an answered migration no place outside its target survives from before | migration; proved |
| `RepeatIsIdle` | repeating a committed migration changes no row | migration; proved |
| `NotModifiedIsTrue` | a list whose tag is that of Control's present document is that document's verified part, so that "not modified" keeps nothing stale; answers may lack the tag, tags do not repeat | market; proved |
| `CatchesUp` | once Control answers for its document, Core lists exactly the verified releases of it | market |
| `OfferStands` | what a card offers is accepted as long as nothing changed; the card's policy revision only where its offers all come from the market or none does | appcenter; proved |
| `UpgradeRises` | an upgrade that AppCenter admitted raises the version, whatever card it came from; a plain upgrade need not | appcenter; proved |
| `GrantIsFresh` | AppCenter admits a command to install or upgrade to a market release only on a grant given during the admission; a plain command needs none | appcenter; proved |

What the checks show about the code beyond the properties: the Conflict return of
`commitTransition` and the "restored" row that `installationState` of
`transition_dispatch.go` recognises are never reached as long as all writers are the
ones modelled; the `ErrNoRows` return of `recordInstallationProgress` is reached only by
operations without an installation.

### Finding

**A removed application can be reinstalled without the intent being stated** (run
*reinstall*, `ReinstallIntended`). A preinstalled install validated against the
installation that a running delete is about to remove needs no `ReinstallRemovedID`. If
the delete commits before the busy query, the submission finds the application idle and
absent and creates a new installation. `preinstalled_database_test.go:253` expects a
Conflict for a reinstallation that does not name what was removed ("removed application
recreated without intent").

### Observations without a run

1. **A forward recovery does not pin its release content.** `retainTransitionReferences`
   (`transitions.go:268`) compares with the snapshots in `app_installation_transitions`
   only; its comment (253-254) says that "failed and recovered operations still pin their
   release content". The target of a recovery is kept in another table.
2. **A reset forgets what a list still vouches for.** `ResetAppBindings`
   (`memory.go:528`) deletes observed objects outside the target while `inventoryAt`
   stays; until the collector reports them again, `catalogPosition` finds the place of a
   workload that runs there free (`catalog.go:161-162` promises the unknown result for
   an occupied place). For the same reason a legacy application registered at such a
   place is told it is absent (`legacyView` sees no object and a complete list), and so is
   an installation of another application that was bound to the place and had been marked
   absent there. `AbsentIsWitnessed` names the case; without it the property cannot be
   proved.
3. **An ambiguous write to etcd is not always retried.** A `Put` that took effect but
   was reported as failed leaves `last` at the revision acknowledged before
   (`notifications.go:203-207`). If the state then returns to that revision, as the
   positions of the catalog and the blocking jobs may, line 198 skips it: nothing is
   published, although 245-246 says that ambiguous writes are retried on the next pass.
   Watchers are left with the stale hint as the last they were told, and whoever reads the
   key finds it until its lease ends. That the last hint put is that of the present state,
   or that etcd keeps holding it, is therefore false of the code; `HintSettles` is what
   remains true.
4. **The migration command resets nothing.** `cmd/station-core/main.go:123` runs
   `MigrateNamespace` in a process of its own, so the serving process keeps its bindings,
   although `namespace_migration.go:111-113` says that they are reset. `PlaceIsNew` is
   therefore stated for the requests outside `Command`; over all requests it fails.
5. **One card, two policies.** A card has one policy revision, that of the candidate
   resolved last (`appcenter_candidates.go:86`). When the installed version is known to
   the operator's registry only and the upgrade comes from the market, the actions for
   the installed version carry the upgrade's policy revision, and admission refuses them
   although nothing changed; `appcenter_admission_database_test.go:72-87` submits an
   enabled candidate with the card's revision and requires acceptance. `OfferStands`
   states the policy for cards that are not so mixed (`Unmixed`).
6. A pending forward recovery whose request was lost stops the dispatch of its transition
   until a client repeats the request with the same key; no loop does.
7. An answer without a chart is kept for the life of the process (`market.go:352-392`):
   a release that Control completes later is listed only after a restart. The model
   assumes, with the code, that Control does not change what it answered.
8. **A document without a tag is held under the tag before it.** `RefreshMarket` keeps
   the old tag when an answer carries none (`market.go:302-304`). If Control derived its
   tags from the content and published a tagged document, an untagged one and the first
   again, the first one's tag would match, "not modified" would confirm the list of the
   second, and the list would not catch up. With tags that do not repeat neither happens:
   the next answer is a whole document.
9. **The plain command path asks for no grant.** `POST /app-commands`
   (`gateway/server.go:359`) reaches `submit` without AppCenter's constraints, which
   admits an install or an upgrade of a listed market release because it is listed
   (`service.go:141-149`). The comment of `CheckInstallGrant` says that "catalog visibility
   and previously cached version data never imply installation rights"
   (`market.go:313-314`); that holds for AppCenter's commands, the only ones that call it.

## 5. Proofs

### Lifecycle

The first part of `LifecycleProofs` proves, for any sets of applications, versions, users, organizations,
keys, workers and coordinators, any recovery rules and any bounds:

| theorem | statement |
|---|---|
| `TypeCorrect` | `Spec => []TypeOK` |
| `JobsAreExclusive` | `Spec => []OneActiveJob` |
| `InstallationIsUnique` | `Spec => []OneCurrentInstallation` |
| `OrganizationsAreSeparate` | `Spec => []SameOrganization` |
| `LocksHoldActiveJobs` | `Spec => []ActiveJobsHeld` |
| `RecoveryIsExclusive` | `Spec => []RecoveryOwnsTransition` |
| `RevisionsNameStates` | `Spec => RevisionAdvances` |

The assumptions are those named in the modules: versions are numbers, every user has an
organization, bounds are naturals, `None` is not a number, workers are not numbers, the
recovery rules have their shape. TLC evaluates them in every run.

The inductive invariant is

    Inv == TypeOK /\ Linked /\ OneActiveJob /\ OneCurrentInstallation
           /\ SameOrganization /\ ActiveJobsHeld /\ RecoveryOwnsTransition

None of its parts is inductive alone. `OneCurrentInstallation` needs that the worker
cannot bring back a removed row, which is in `installationState`; `OneActiveJob` needs
`ActiveJobsHeld`, because a commit by someone who held a settled job would make it
active again; `ActiveJobsHeld` in turn needs `OneActiveJob` and `SameOrganization`: an
active transition keeps its application installed because no operation of the same
application is active to change it. `RecoveryOwnsTransition` needs the lock part of
`ActiveJobsHeld` to know that the coordinator that settles a transition is not beside a
recovery. `Linked` says that references between the tables and from the processes
resolve, and that what a dispatch remembers of a transition agrees with the row in the
fields that never change. There is one lemma per action for types and one for the rest
of `Inv`; actions that only settle a job share the lemma `SettlingKeeps`.
`RevisionsNameStates` is a separate argument per action over the same invariant.

### Egress proxies

`EgressProofs` proves, for any sets of proxies, endpoints, requests and processes, any
number of slots and any lease longer than the deadline:

| theorem | statement |
|---|---|
| `EgressTypeCorrect` | `Spec => []TypeOK` |
| `TableIsRegister` | `Spec => ImplementsRegister`: the refinement of `ProxyRegister` |
| `ProbesAreExclusive` | `Spec => []OneProbePerRevision` |
| `DeletionWaits` | `Spec => DeleteWaits` |

The assumption is `EgressAssumption`: `Deadline < Lease`, and `None` and `Gone` are
neither rows nor requests. The refinement needs the types only, because the code compares
the revision in the statement that stores a result: every action is shown to be an
`Edit`, `Judge`, `Create` or `Remove` of the card, or to leave all cards alone. Exclusion
does not follow from the guards of the actions. Its inductive invariant is

    Sound == (\A t \in Tester : Old(t) /\ Held(t)) /\ OneProbePerRevision

`Old`: a request never knows a revision or a time that the table has not reached. `Held`:
while a probe runs in time and its revision is the present one, the row carries its token
and a lease that outlives its deadline. So a second probe of the revision finds the lease
taken; `Owned`, the condition of the deferred cleanup, keeps a late request from giving
back its successor's lease; and a delete, which waits for the lease, waits for the probe.
The step lemmas first say what an action may do to a row and to a request (`RowStep`,
`RequestStep`); the invariant is then preserved by these two shapes rather than action by
action.

### Installations under transitions and operations

The second part of `LifecycleProofs` builds on `Inv`, for the same constants:

| theorem | statement |
|---|---|
| `TransitionsOwnInstallations` | `Spec => []TransitionOwnsInstallation` |
| `CommitsAreNeverStale` | `Spec => []NoStaleCommit` |
| `PublicationIsFinal` | `Spec => PublishedNeverReverts` |
| `OutcomesAgree` | `Spec => []OutcomeAgrees` |
| `ResultsApply` | `Spec => []ResultApplies` |
| `InstalledVersionsAreConfirmed` | `Spec => []InstalledVersionConfirmed` |

There are four inductive invariants, because the four arguments have little in common.

    TransitionsInv == Inv /\ PhaseFits /\ PublishedExists /\ TransitionOwnsInstallation
                      /\ NoStaleCommit /\ ModeFits
    OutcomeInv     == Inv /\ OutcomeAgrees /\ AnswersStand
    ResultsInv     == TransitionsInv /\ ResultApplies
    ConfirmedInv   == TransitionsInv /\ InstalledVersionConfirmed

`TransitionOwnsInstallation` compares the installation with what the transition accepted,
one revision later once the `published` event is in the audit. It holds after a commit
because the commit was not stale, a commit is not stale because nobody else moved either
row since the read, and the mode of the request is the one the rows call for (`ModeFits`),
without which a late "restore" could follow a publication; `PhaseFits` ties phase and
status to the event. `AnswersStand` says that an answer a worker holds is still borne out
by Runtime's record: the record of a finished operation does not change, and an operation
Runtime does not know is one nobody has sent since, since its row is locked.
`ResultApplies` needs `TransitionsInv` because a transition moves the version of an
installation whose last operation may be the one in question; `InstalledVersionConfirmed`
because a transition that is not published leaves the version it found, which is
confirmed already. Steps are sorted first by what they touch (`StepKinds`, `QuietSteps`),
so that an invariant is argued about only where a step could disturb it.

The assumption added to those of the lifecycle is `None \notin Answer`: the absence of an
answer is not an answer.

### Core and Runtime

The second part also proves `CoreAndRuntimeAgree` (`Spec => []RuntimeAgrees`) and
`TransitionsStayAnswerable` (`Spec => []AlwaysAnswerable`) from

    RuntimeInv == TransitionsInv /\ JournalFits /\ AnswerFits /\ ForwardFits /\ LateFits

(theorem `RuntimeInStep`). No lock joins Core's row to Runtime's journal, so the invariant
has to allow for everything that may be under way between them. `JournalFits`: for each
phase and status of the row, the phases the journal can be in, given whether the version
was published. `AnswerFits`: an answer not yet committed is one
the journal still bears out, or has only gone further along the protocol. `LateFits`: a
request that Core has given up is for a phase the row has had, so that executing it now
moves the journal to nowhere the row does not allow for. `ForwardFits`: a journal that was
carried forward has a verified recovery, closed exactly if the transition is. `AlwaysAnswerable` follows by cases over phase and journal.

### The register of the applications

The third part of `LifecycleProofs` proves `LifecycleIsARegister`
(`Spec => ImplementsAppRegister`), for the same constants: `Init` maps to the initial
register and each step of `Next` to a step of the register or to a stutter.

It needs `ResultsInv`, not types alone. The register changes one application at a time,
and its `installed` and `job` hold at most one element because of
`OneCurrentInstallation` and `OneActiveJob`. A recorded result moves the installation to
the version of the operation because of `ResultApplies`: the row is not removed, and its
version differs from the operation's only for an upgrade or an adoption of an installed
one. A transition completes with its target installed because of
`TransitionOwnsInstallation`, and `Complete` or `GiveUp` is chosen by the `published`
event through `PhaseFits` and `ModeFits`. An accepted job is new to the register because
`Insert` takes a key that is not in the table. `JobsMove` says that every
step of the register is one of a job.

The argument is per application. First what the mapping shows of an application when a
step writes one row of one table, and that it shows the same of every other application
(the lemmas on views); then, for each kind of step, the register action it is:

| steps of `Lifecycle` | register |
|---|---|
| `submit` and its kinds | `AcceptInstall`, `AcceptAbsent` or `AcceptOperation`, by what `reserveInstallation` found |
| `Record` of a terminal answer | `Succeed` or `Fail` |
| `SubmitTransition` | `AcceptTransition` |
| `commitTransition` | `Publish`, `Complete`, `GiveUp`, or a stutter when only the phase moves |
| `finishForward` | `Recover` when the recovery is verified, else a stutter |
| all others | stutter |

`InstallationIsUnique` is the property that TLC checked apart before; the register implies
it, since `installed` shows every installation that is not removed.

### Namespace migration

`NamespaceMigrationProofs` proves, for any instances, namespaces, requests of any length,
schema variants and stored rows:

| theorem | statement |
|---|---|
| `MigrationInvariant` | `Spec => []MigrationInv` |
| `RowsStayCoherent` | `Spec => []RowsCoherent` |
| `ExecutionsStayWithWorkspaces` | `Spec => []ExecutionsFollow` |
| `PlacesAreNew` | `Spec => []PlaceIsNew` |
| `RepetitionsAreIdle` | `Spec => RepeatIsIdle` |

The transaction used to be one action that folded over the workspaces of the request, and
what a fold computes for every sequence needs an induction that the installed provers
cannot do. It is now a step per workspace, so that the induction over the request is the
one over the behaviour. `MigrationInv` holds the types, that one transaction is open at a
time (`OneOpen`, the locks), the three properties, and of the transaction's view that it
is typed and coherent like the tables (`TxTyped`, `TxCoherent`) and, as long as every
workspace of the request had already landed when it began, that nothing has changed in it
(`TxIdle`). `TxIdle` compares the view with the committed tables, which nobody else writes
meanwhile because of `OneOpen`; `RepeatIsIdle` is what `Commit` makes of it.
`MigrationAssumption` asks for coherent rows at the beginning and requests of the declared
shape. That the schema's own constraints hold is not needed: coherence comes from what
`MovedApp`, `MovedStart` and `migrateRuntimeExecutions` write, with or without them.

### Sessions

`SessionsProofs` proves, for any accounts, sessions, requests and terms:

| theorem | statement |
|---|---|
| `SessionsInvariant` | `Spec => []IInv` |
| `GuessesAreBounded` | `Spec => []GuessesBounded` |
| `TokensHaveOneHeir` | `Spec => []OneHeir` |
| `LogoutsAreFinal` | `Spec => []LogoutIsFinal` |
| `EffectsArePermitted` | `Spec => []EffectIsPermitted` |
| `BootstrapHappensOnce` | `Spec => []OneBootstrap` |

The invariant says of each kind of request what its row locks preserve between its
`SELECT` and its `COMMIT` (`LoginHolds`, `SessionHolds`, `DelegateHolds`,
`BootstrapHolds`), of tokens that each belongs to one session and that a replaced one is in
no row (`TokensOwned`, `SpentIsGone`), of logouts that the row is revoked (`EndedIsRevoked`),
of the counters that the row counts what was compared (`Counted`), and that a station
which began without accounts has one at most (`FirstAlone`). The
locks are not a variable of the model but what the requests under way hold; that two
requests do not hold conflicting ones is therefore part of the invariant and not of the
actions. `SessionsAssumption` asks for positive terms and limits, and that `None` is
neither an account, a session nor a request.

### Market

`MarketProofs` proves `NotModifiedStaysTrue` (`Spec => []NotModifiedIsTrue`) for any
documents, versions and requests and any number of restarts, from any catalog file that an
earlier process may have written. The tag and the list are not of one document in general,
since an answer without a tag leaves the tag before it. `MarketInv` therefore bounds the
tag: the document a refresh works on is never older than the one whose tag is held
(`RefreshFits`), so that once the tag is the present document's, later answers are of that
document, and with it or without, the list stays its verified part (`StoredFits`). Every
lookup so far has an answer that Control gives for good (`LookupsFit`, `AnswersTypeOK`), and
the list is stored only when no lookup failed. That documents have tags of their own is in
the model of Control, and the theorem needs it (observation 8).

### AppCenter

`AppCenterProofs` proves, for any clients, versions, operator's policy, plain commands and
workload identities:

| theorem | statement |
|---|---|
| `AppCenterInvariant` | `Spec => []AppCenterInv` |
| `OffersStand` | `Spec => []OfferStands` |
| `UpgradesRise` | `Spec => []UpgradeRises` |
| `GrantsAreFresh` | `Spec => []GrantIsFresh` |

`AppCenterInv` has a part for admissions and one for cards. `Alone` and `AdmissionFits`: one
admission at a time, an upgrade under way is still above the locked row's version, and
every grant since the beginning is remembered, with the one that was checked among them.
Plain commands and the ends of operations disturb cards and wait for admissions; what they
admit is outside `UpgradeRises` and `GrantIsFresh`, which speak of operations admitted
`ByAppCenter`.
`CardSound`: whatever changes, the candidates left are those the card's own row, entry and
observation allow (`Eligible`), so that no projection meets a row it was not made for.
`CardFits`: while nothing changes, the offers satisfy the conditions of `resolve` now, and
the card's policy revision is that of one of its offers. `OfferStands` follows by
comparing the conditions of `Kinds` with those of `validateAppCenterInstallation`, `Bound`
and `Inspected` action by action, on every card; its part about the policy revision exempts
mixed cards, of which it is false (observation 5). That one policy revision serves all offers
of an unmixed card is the lemma `OnePolicy`: market revisions name the catalog's entry and not the
offer's version, and an offer unknown to the market is for the installed version.
`ShownAlike` is needed because the card keeps the revision of the candidate projected
last, shown or not.

### Observation memory

`CollectorsProofs` proves, for any collectors, namespaces, connections, workloads,
installations and limits, and for a `TTL` of at least 1:

| theorem | statement |
|---|---|
| `MemoryInvariant` | `Spec => []MemoryInv` |
| `InventoryHasOneOwner` | `Spec => []OneConnectionOwnsInventory` |
| `ReadyRestsOnProbe` | `Spec => []ReadyIsProbed` |
| `AbsentRestsOnReport` | `Spec => []AbsentIsWitnessed` |
| `RevisionsNameStates` | `Spec => RevisionNamesState` |

`MemoryInv` follows an object from the frame that brought it. A list being received names
only its collector's places and its own connection (`ListsArePrivate`); what is published
came over a connection that has listed (`InventoryIsListed`), the same one for a whole
collector (`InventoryIsOne`), and the active one once that has listed
(`InventoryIsCurrent`). `InventoryIsProbed`: an object that counts as ready was probed over
its own connection, and its deadline is at most `TTL` after that probe; this is inductive
because `sample` takes over the health of a stored object only within a connection that has
listed, which by the parts before is the object's own. `AbsenceIsSeen` and `EmptyIsSeen`
compare the times from which a binding and an inventory conclude absence with the last
report of the place; a heartbeat may renew them because a place that counts as empty was
reported empty, which needs that a connection that has listed left a time
(`ListedIsTimed`).

The seven kinds of accepted frames share one lemma (`AcceptedInv`: what a frame must
satisfy for `apply` to preserve the invariant), the other steps another (`QuietInv`). What
the projection says is proved of the operators of `Observations` once (`ProjectedSays`):
when it can say ready or absent, and that a different content takes another revision. With
`Installation` finite, the number of changed bindings that `projectAll` adds to a scope is
then positive whenever the organization is told something else.

Two things were found by these proofs. A probe was remembered in the model for a
workload and the connection that probed it last; with two connections alternating, that
history is too short to state `ReadyIsProbed`, so it is now kept for each connection. And
the reset of observation 2.

### Snapshots

`StateFeedProofs` proves `RevisionsNameAnswers` (`Spec => []RevisionNamesAnswer`) for any
organizations, applications, catalogs and readers, from (theorem `FeedInvariant`)

    FeedInv == TypeOK /\ SyncIsAlone /\ RowsNamed /\ MemoryNamed

The property compares answers only; a snapshot is answered from a database read and a
later memory read, between which either may move. `RowsNamed` therefore ranges over the
answers, the snapshots under way and what a reader would see now: of these, two with one
organization and one scope revision have the same rows, and none is ahead of the present
revision. `MemoryNamed` says the same of the memory, for a boot id together with a
revision; a restart takes a boot id that no answer has. That it is new is what the code
takes from the randomness of the id, and the model from a counter.

Two lemmas (`RowsStep`, `MemoryStep`) reduce every action to one obligation: readings are
of the past or of the present, and what changes takes a higher revision. For
`SyncCatalogWrite` that rests on `SyncIsAlone`, the advisory lock: the items it marks are
those that differ from the catalog it *read*, and they would not be those that change if
another process had written meanwhile. `App` is assumed finite, so that the number of
marked items that a scope is raised by is a natural number, and positive if there are any.

### Only model-checked

The liveness properties `NoStarvation`, `EveryTransitionEnds`, `HintSettles` and
`CatchesUp`: fairness is out of the prover's reach. Every invariant, action property and
refinement of the passing runs is also a theorem.

## 6. Not modelled

* Message texts, byte counters of a progress report, timestamps other than the order of
  `updated_at` and the terms named above, and the documents behind a release: the readers
  (`transition_releases.go`, `dashboard_*.go`, `releasebinding`, the AppCenter schemas)
  are pure checks that refuse more.
* Admission switched off by configuration (`ConfigureTransitionAdmission`) only removes
  behaviours. Serialization failures and lock timeouts of PostgreSQL are among the refused
  submissions and the aborted dispatches. A pool that runs out of connections makes calls
  fail at their deadlines, which any call in the models may do.
* `probe.go` (the samples and lookups of a proxy test) is network I/O; the models let it
  return any verdict. Ciphers and URL checks are left out.
* `catalogPosition`, and the limits on frames and objects of a stream.
* A database connection lost during a delegated effect (`delegation.go:47`), which would
  free the share locks while the effect goes on.
* Kubernetes discovery and the static catalog file are reads that leave no state behind;
  `Catalog.Snapshot` reads its entries without the lock, and has no caller outside tests.
* Telemetry samples a metrics API and parses what it returns; its cache is replaced as a
  whole under a mutex and nothing else depends on it.
* The HTTP gateway holds no state (reverse proxying of application pages included);
  `runtimev1` is generated; `strictjson` and `config` run before anything else.
* The tables only Runtime writes, and the migration runner.

## 7. Plan

1. The connection pool and the order of locks (8 connections, each dispatch and recovery
   holds one during its call).
2. A reference register of releases, shared by transitions and forward recoveries, for
   observation 1.
