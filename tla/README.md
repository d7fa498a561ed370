# maos-core in TLA+

maos-core is a Go server with a PostgreSQL database behind it. Actors (agents,
services, portals) call each other through it: a caller's request becomes an
*invocation*, a row in a table; a worker of the addressed actor asks for its next
invocation with a long poll, works on it and returns a result, for which the caller
may be waiting. An administrative part manages actors, tokens and configuration, and
deploys configured actors to Kubernetes.

This directory holds TLA+ modules for the parts of the server where goroutines, the
database, its notifications, the cluster and the clock meet, TLC configurations that
check them on small instances, and proofs for all instances. `PROJECT.json` lists the
components, the runs, the source lines behind every definition, the hazards of the code
and which property is aimed at which.

## 1. Inventory

| component | state | operations | hard behaviour | module |
|---|---|---|---|---|
| **invocation manager** `invocation/manager.go`, `invocation.sql`, `notify.sql` | the `invocations` table; per request a `responseCh` and a timer | execute sync / async, get by id (with wait), get next, return response / error, `handleInvokeNotify` | insert-then-notify, poll-then-sleep, commit-then-notify; timers racing answers; lost notifications; crashes | `Invocation` |
| **dispatcher** `invocation/dispatcher.go` | `closed`, a concurrent map of buffered channels | `Listen`, `WaitFor`, `Dispatch`, `Close` | `Close` against everything; creation races; full buffers | `Dispatcher` |
| **notifier** `internal/notifier`, with the **postgres listener** `internal/listener` and the **start/stop base** `internal/startstop` | a connection, `subscriptions`, `waitInterruptChan`, flags under `n.mu` | `Listen`, `Unlisten`, `Start`, `Stop`, the main loop | clients interrupt a blocked wait and release the mutex meanwhile; reconnects; drains | `Notifier` |
| **deployments** `admin/deployment_manage.go`, `deployment.sql`, `config_suite.sql`, and **configs** `admin/config_manage.go`, `handler/get_config.go`, `config.sql` | `deployments`, `config_suites`, `configs`, with partial unique indexes; the suite object in S3; the cluster | create, clone, submit, reject, delete, publish, restart, edit a config, the caller's config; the background run | READ COMMITTED races of single statements, a goroutine lost in a crash, S3 and Kubernetes written before the commit, configs read twice | `Deployment` |
| **actors, API tokens, authentication, permissions** `admin/actor_manage.go`, `admin/token_manage.go`, `middleware/`, `handler/`, `actor.sql`, `api_token.sql` | `actors`, `queues`, `api_tokens`, a cache with a time to live, singleflight, a package variable | create, update, delete; rotate; fetch; the bearer check and the permission gates | stale and negative entries, shared fetches, expiry moved by rotations, the bootstrap token | `Access` |
| **Kubernetes controller** `k8s/controller.go` | the objects of a namespace, migration jobs | `RunMigrations`, `UpdateDeploymentSet`, secrets | an error or a crash between any two calls, overlapping roll-outs, jobs that outlive their call | `K8sController` |
| **schema migrator** `migrate/maos_migrate.go` | the schema, `_migration` | up and down, with limit, target, dry run | failures between applying and recording; two processes | `Migrator` |
| **suite store** `internal/suitestore` | `lastSync`, `lastUpdated`, the bucket, `reference_config_suites` | `SyncSuites`, `WriteSuite` | unlocked state shared by requests, objects that change during a scan, partial scans | `SuiteStore` |
| base service, kube config checks, settings, server wiring, LLM adapters, MCP list, generated code, helpers | little or none | single statements or conversions | - | not modelled, section 7 |

How they interact: the API handler gates a request with what the token cache found, then
calls the manager or the admin code. The manager calls the database and `pg_notify`;
PostgreSQL sends the notification back over the notifier's connection; the notifier's
delivery goroutine calls the callbacks of its subscriptions, which are
`handleInvokeNotify` (then `Dispatcher.Dispatch`) for the topic *invoke* and the sends to
the `responseCh`s for the topic *response*. A publish changes tables, S3 (suite store),
tokens (which the cache may still hold) and the cluster (Kubernetes controller).

What makes each part correct:

* *manager*: a job goes to one worker, of the right actor, oldest first; what callers
  are told is true and stays true; nobody sleeps on work or on an answer that is
  there; every request ends.
* *dispatcher*: one channel per queue, a buffered token within reach of whoever waits
  next, nobody left behind by `Close`.
* *notifier*: who is subscribed is LISTENed, no client waits for an answer nobody will
  send, the connection is not closed under its user, `Stop` returns.
* *deployments*: one deployed deployment, whose suite is the only active one and whose
  migrations succeeded; tables, S3 and the cluster agree; a run always ends.
* *access*: whoever gets in was entitled to within the cache's time to live, and who is
  entitled is not kept out for longer than that.
* *Kubernetes controller*: a deployment always has what its pods need; a call that
  reports success has left exactly its set; nothing is deployed before its migrations.
* *migrator*: recorded versions are the applied ones, and options mean what they say.
* *suite store*: what is taken for unchanged is what was copied, and a sync that reports
  success did its work.

## 2. Modules

### InvocationQueue - the promise

What the table promises to anybody who looks only at it: `Submit` appends an available
invocation, `Take` gives the oldest available one of a queue to its actor, `Finish`
gives it one result. `Invocation` is shown to implement it (`KeepsPromise`): `state`
and `queue` are columns, `taker` is the last element of `attempted_by`.

### Invocation - handlers, table, notifications

| in the module | in the code |
|---|---|
| `rows`, `nextId` | table `invocations` and its sequence; `attemptedBy` is `attempted_by` |
| `stream` | NOTIFYs on their way to `deliverNotifications`, in order |
| `channels`, `tokens` | the dispatcher's map, and what its channels buffer (all tokens of a channel are alike) |
| `wpc`, `wid`, `gone` | a worker's request: where it stands, the row it holds, whether its client has hung up |
| `cpc`, `kind`, `cid`, `inbox`, `subs`, `answer` | a caller's request: where it stands, its `responseCh`, its subscription, what it was told |
| `missed` | history: the callers whose own response found their `responseCh` full |

A handler is cut where another goroutine can step in: at each SQL statement (one
statement is atomic), each `pg_notify`, each select. `GetNextInvocation` is
`BeginGetNext` (Listen), `PollTakes` / `PollFindsNone`, `WaitFor` (a buffered token, or
`"parked"`), `WaitForExpires` and a last poll, `Reply`. `ReturnInvocation*` is
`ReturnCommit` and `ReturnNotify`: two statements, no transaction around them, and no
check that the returning request belongs to the worker that got the job; any request of
the same actor may finish it, and may do so twice. `ExecuteInvocationSync` subscribes
(`BeginSync`), inserts, announces, waits and reads the row. `GetInvocationById` with a
wait subscribes and waits *before* it reads. Both discard the error of `Listen`: without a
subscription the handler goes on, waits for its timer, and its deferred `Unlisten` dereferences
nil (`Subscribe`, `ReadRow`), which net/http recovers and the client sees as a broken connection.

Time is not counted: a timer fires whenever its select is blocked (`WaitExpires`, `WaitForExpires`).
Faults, at most `MaxFaults` in a behaviour: `"lose"` (a notification dropped because
`notificationBuf` is full or the listener reconnects), `"dberror"` (a statement fails, or it is
committed and its answer lost), `"gone"` (a worker's client hangs up), `"crash"` (the process
restarts; only the table survives). A server crash leaves rows *running* for ever, as in the code.
Two details of the code show up here: a handler parked in `WaitFor` does not see its request's
context, and `PgNotifyOne`'s errors are ignored.

One statement is one step, so what `FOR UPDATE SKIP LOCKED` passes over while another poll holds
its row lock is not seen: a poll that finds nothing because the one available row is locked by a
statement that then fails, and leaves that row available.

Left out: payloads, metadata, HTTP codes other than by the place a handler ends in,
several server processes on one database.

### Dispatcher - the concurrent map

Here the channels are real objects, made, loaded, sent on and closed in separate steps, so `Close`
can come between any two of them. `Call` starts an operation, `Step` takes the next step of one.
`accepted` and `received` (for which id a payload was sent and received), `heard` and `expected` are
history variables for the properties. A Go panic stops the model, as it stops the process.

`Invocation` uses a coarser dispatcher: `Listen` and the operations on one channel are
single steps and there is no `Close`. That is what `OneChannelPerId` and
`ListenersAreHeard` justify: before `Close` every goroutine that holds a queue's channel
holds the same one, so loading it and using it can be taken together.

### Notifier - the interrupt protocol

The main loop owns the connection. A client's `Listen` or `Unlisten` takes `n.mu`,
changes `subscriptions`, and either works on the connection itself (the loop is not
waiting) or pushes an interrupt into `waitInterruptChan`, cancels the wait, **releases
`n.mu`** and waits for the answer, up to 5 seconds, then locks again (`Relock`). A critical
section is one step except for that release and where it blocks: there is no action that
completes a push into a full channel, because the main loop needs the mutex that the
pushing client holds before it would read the channel. `main` is the program counter of
`Start`, `listenAndWait` and `waitOnce`; `Connected`, `Closed`, `Listened` and `Unlistened`
are the calls of the postgres listener, `StartInit` and `StopInit` those of the start/stop
base. The connection may break or fall silent (`Fault`), operations may fail, and with
`SlowOperations` they may outlast the client's 5 seconds (`TimesOut`). `ManagerOrder`
restricts the clients to what `Manager.Start` and `Close` do: subscribe to both topics
before the notifier starts, leave in reverse order, keep them while it runs.

Left out: the notifications themselves (a fault in `Invocation` stands for losing
one); a second Start after Stop; each client has one subscription in its life.

### Deployment - tables, S3 and cluster

| in the module | in the code |
|---|---|
| `status`, `nextId` | the rows of `deployments` and their sequence |
| `content`, `active`, `deployedAt` | the newest configs of each suite, `config_suites.active`, `deployed_at` |
| `tokens`, `cluster`, `s3`, `jobs` | the API tokens of the actors that no rotation has set to expire; what Kubernetes was given last, with its key; the suite object; the migration jobs |
| `slot` | a request or run that takes several statements: its place, deployment, the configs it read, its new key, the tokens its rotation saw |

`PublishDeployment` is `SetDeploymentDeploying` in two steps, because the conditions of
its common table expression belong to the statement's snapshot and the `UPDATE` may wait for
a row lock and then re-checks the id alone; then the goroutine: `StartRun` (configs are
read), `RunMigrations`, `MigrationsEnd`, and one transaction: `BeginTransaction`,
`ConfigSuiteActivate`, `DeploymentPublish`, `PublishToS3`, `RotateKeys`,
`UpdateKubernetes`, `Commit`. What the transaction writes in the database is applied when it
commits; until then its row locks make others wait (`Activating`, `Locked`,
`RotationWaits`). What it does to S3, the cluster and the jobs takes effect at once and is not
undone when it fails (`RunFails`, `Crash`), after which `RecordError` sets *failed*; it does so
as well when the commit succeeds and its answer is lost (`CommitAnswerLost`).
`RestartDeployment` is a shorter transaction that locks nothing but the tokens it replaces.
`UpdateConfig` is one statement, cut like the publish into what it checks and what it writes.
`overtaken` records that a publish overtook a restart, or an edit a run that had read the
configs: the code guards against neither, and the properties say what holds otherwise.

Abstractions: a deployment and the suite created with it have one id; the configs of a suite
are one value, and so are the tokens of all actors; reviewers, names and notes are left out
(with `UpdateDeployment`), submitting is one step; jobs do not expire; S3 is the one object of
this server.

### Access - who may call

Time is counted in ticks. The tables (`actors`, `queues`, `table`) are changed by the admin
API and by rotations; `cache`, `flight` and `waiting` are ApiTokenCache, the fetch that
singleflight has under way for a token and the requests that wait for it; the fetch
(`token_fetch.go`) is cut at its statements: `CountTokens`, `Bootstraps`, `FindToken`,
`FetchReturns`. It runs with the context of the request that started it, so `FetchFails`
answers all who wait. `bootstrapping` is the package variable that a late count may
set back. `Answers` is the bearer check and the gate of the handler, over the whole table of
operations (`Operations`, `GateOf`, `KeysOf`): four handlers ask for another key than
their own name. `MalformedRequest` is what the generated wrappers refuse before any of
that. `answered` holds the answers a step may give; `lastValid` and `lastUnsettled` are history.

Abstractions: configs, which also refer to actors and keep an actor from being deleted (409), are
left out, so an actor is deleted in more cases than in the code; a request is served within its
tick but for the fetch; one tick is the unit of
the time to live, the grace period and the bootstrap token's life; the operations
without a gate (health, the caller's own config) are left out.

### K8sController - one API call a step

An object is the call that wrote it last. A call lists what there is (`ListExistingResources`, its
three List calls taken together), goes through its set an item at a time (`ProcessItem` puts the
item's API calls into `todo`, in the order of the code), then deletes what was listed and is not in
the set (`obsolete`). Each API call is a step; it may fail (`ApiFails`), the server may die between
any two (`Crash`), and up to `MaxOverlap` calls run together, of which updates use the resource
version listed. `RunMigrations` creates jobs, which retry, fail, succeed and are removed on their
own, and polls them; `ContextEnds` leaves them running. `alone`, `latest`, `meddled` and `ran` are
history: which calls no other overlapped, whether the admin API changed a key secret, which jobs
ever succeeded.

Left out: `TriggerRollingRestart` (nothing calls it), pod metrics, logs, the encrypted
backup of the secrets.

### Migrator - apply, then record

`Targets` computes which versions a run applies from what is recorded and from the options
(a set, gone through upwards or downwards),
`ApplyUp` / `ApplyDown` run the SQL of one version, each in a statement of its own, and
only at the end `InsertRows` / `DeleteRows` record them. The SQL of a version fails if it is
in force already (up) or is not (down). `clean` is history: no run failed or overlapped
another. `NilOpts` is the nil dereference down; the program always passes options.

### SuiteStore - the bucket and its copy

Every deployment of maos writes one object; `SyncSuites` lists pages of them, skips those
whose time is the one remembered and itself, reads, upserts, remembers. A page goes on after the
last object of the one before, with the objects there are by then (`NextOf`); that there is
another page is known with the one before. The syncs of two
requests interleave at each use of the store's fields. The bucket's time is coarse, so a
rewrite may leave the time as it was; `muddled` holds the objects for which that happened
or which two syncs copied at once.

### MC modules and proof modules

The `MC...` modules only define model values, instances and symmetry. Each module of a
component has a `...Proofs` module beside it, which EXTENDS it and holds its theorems
(section 5). Operators called `Op_Variant` state a definition with one plausible
mistake in it; no specification uses them. They are there to be put in `Op`'s place to
see that a property notices.

## 3. Runs

| run | instance | checks | shows |
|---|---|---|---|
| `inv_safe` | 2 workers of one queue, 2 callers, 2 rows, 1 place in a `responseCh`, any one fault | `TypeOK`, `TakenOnce`, `ResponsesAreTrue`, `WokenCallersGetResults`, `FinalAnswersStand`, `NoLostWakeup`, `SyncResponseNotMissed`, `MissedResponsesAreRead`, `KeepsPromise` | what is handed over and told is right whatever is lost or crashes; a fault costs one wake-up; only a full `responseCh` loses an answer, which is read then |
| `inv_live` | 1 worker, 2 synchronous callers, 2 rows, 1 place in its dispatcher channel and in a `responseCh`, one loss or crash, `FairSpec` | `PromptHandOver`, `PromptResponse`, `EveryCallAnswered` | wake-ups and results arrive without a timer's help, but for those a fault or a full `responseCh` costs; the tokens that `Dispatch` drops at a full channel were not needed; with timers each request ends, whatever is lost |
| `disp_all` | 2 waiters, 1 dispatcher, 2 closers, 2 ids, 4 calls, buffer 1, `FairSpec` | `TypeOK`, `OneChannelPerId`, `PayloadsStayInReach`, `ListenersAreHeard`, `CloseReleasesWaiters` | the map is safe, loses no payload it buffered before `Close`, and `Close` releases everybody |
| `notif_safe` | 3 clients, 2 topics, 1 place, slow operations, 2 faults | `TypeOK`, `NoInterruptLeftBehind`, `OpenWhileInUse` | the channel is drained and the connection used only while open, even when clients block or give up |
| `notif_live` | the manager's 2 clients and 2 handlers, 2 places, 1 fault, `FairManagerSpec` | `ListenedWhileKept`, `PushNeverBlocks`, `InterruptsReturn`, `StopCompletes` | the program's own use keeps both topics LISTENed; with as many places as topics nobody blocks, calls and Stop return |
| `notif_deaf` | 3 clients, no fault | *violates* `NobodyStaysDeaf` | section 4 |
| `dep_publish` | 2 requests at a time, 2 deployments, one with migrations, 2 restarts, 1 fault or lost answer | `DeployedIsActive`, `DeployedWasMigrated`, `ClusterKeysAreKnown`, `PublishedEverywhere`, `RunsEnd` | overlapping publishes, restarts, edits and failures |
| `dep_double` | 2 publish requests of one deployment, no fault | *violates* `OneRunAtATime` | section 4 |
| `access_time` | 1 actor, 2 tokens of which 1 is presented, the bootstrap token, 2 waiting requests, 3 ticks | `TypeOK`, `AcceptedWereValid`, `ValidAreAccepted` | cache, fetches, expiry, rotation and restarts against the clock |
| `k8s_set` | 3 calls with different sets over 2 names, 1 service, 1 job, two at a time, 1 fault, 1 edited secret | `TypeOK`, `PodsCanStart`, `SetIsApplied`, `DeployedAfterMigrations` | roll-outs after roll-outs that failed half-way |
| `mig_up_down` | 2 processes, any number of runs, 3 versions, every kind of option, 1 fault | `InStep`, `OptionsAreMet` | the record follows the schema, and each option does what it says |
| `suite_sync` | 2 syncs, 3 objects in pages of 2, 3 writes, 1 fault, 3 units of time | `UnchangedIsCopied`, `SyncedIsCopied` | the copy catches up, also with objects that change under the scan |

Deadlock is checked in `mig_up_down`, whose runs may always start again. It is not in the
others: each of those models stops when its requests, calls, writes or ticks are used up,
which is a bound and not a hang (`Dispatcher` also stops at a panic, and `notif_safe` at a
client that blocks with the mutex). That nobody hangs is what the liveness properties say.

**Bounds.** The smallest instances in which the cases happen.
*Invocation*: two workers on one queue are needed for the wake-up of one to be taken by the
other, two callers for one to read the other's response, two rows for "oldest". One fault
separates every pair of consecutive steps of the handlers. `DispatchBuffer` is a place for
each handler, which the code's 32 gives only while no queue has more than 32 sleeping
handlers plus tokens; the two rows of `inv_live` overflow the one place of its one handler.
`ResponseBuffer` 1 stands for 64 and overflows with two rows, when the other caller's response
comes first. `inv_live` has one worker to keep its graph small; how two workers take each other's
wake-ups is in `inv_safe`.
*Dispatcher*: `Capacity` 1 fills with one payload, a second id makes a wrong channel reachable; four
calls are enough for a `Listen`, a `WaitFor`, a `Dispatch` and a `Close` to meet.
*Notifier*: `Capacity` 1 makes clients of two topics meet a full channel, `Capacity` 2 has the
code's relation of at least one place per topic (10 places, two topics).
*Deployment*: two slots let any two requests or runs overlap, two deployments let one
replace the other, `Migratable` one of them; of five keys one is always free
when a rotation asks for one; two restarts let one follow another.
*Access*: `TTL`, `Latency`, `Grace` and `BootstrapLife` of one tick within a `Horizon` of three
let an entry age past its life after a fetch that took a tick; `Expiries` holds one that
passes and one that does not. Tokens are independent of each other but for rotation and
the count, so one presented token beside a second and the bootstrap token suffices.
*K8sController*: three sets that share a name, drop a service and drop an ingress exercise
each create, update and deletion after each other.
*Migrator*: three versions leave one before, at and after a target; runs are unbounded.
*SuiteStore*: three objects are two pages, the server's own in the first of them.
`MaxCalls`, `MaxInvocations`, `MaxDeployments`, `MaxRestarts`, `MaxWrites`, `Horizon`,
`MaxOverlap` and `MaxFaults` are the caps on counters; one edit of a secret is the
other bound of `k8s_set`.

**Fairness.** Weak fairness of each goroutine's own steps (the Go scheduler runs every
runnable goroutine, and the database answers) and of delivery. Clients need not call or
hang up, no fault need happen. In `Invocation` timers are no part of `FairSpec`, so that
`PromptHandOver` and `PromptResponse` are not explained by one, and are the premise
`TimersFire` of `EveryCallAnswered`; the first two end at a fault, `PromptResponse` also at a full
`responseCh`, the third at neither.
In `Dispatcher` and `Notifier` no timer is fair: `CloseReleasesWaiters` is about
`d.closed`, and the ping timer is no part of the fair main loop. In `Deployment` each
slot goes on (`SlotStep`) and a job ends (`JobsEnd`), which stands for the 120 seconds of
the run's context: a job that hangs ends the wait in the same way as one that fails.
`Access`, `K8sController`, `Migrator` and `SuiteStore` state no liveness: nothing there
retries by itself, so what must happen next is always up to the next request.

## 4. Where the code differs from what it says

1. `notif_deaf`: the last subscriber of a topic leaves and a new one joins while the UNLISTEN
   is under way: the new one stays subscribed to a topic that is not LISTENed. In the
   program the manager's own subscriptions prevent it (`ListenedWhileKept`), as long as its
   `Listen` on the response topic succeeds, whose error is discarded.
2. `dep_double`: two publish requests of one deployment may both pass
   `SetDeploymentDeploying`, whose comment says that it checks for other deployments under way,
   and start a run each. `deployments_unique_deploying` prevents it for two different
   deployments only. `dep_publish` shows what survives: still at most one deployed
   deployment with its suite active, and both runs end.

Also visible in the models, and listed as hazards or as steps without a property:

* *manager*: a `GetNext` whose client hung up stays parked in `WaitFor`, which takes no context; it
  can consume the only wake-up token of a job and fail its poll, and another handler sleeps until
  its own timer (hence the `faults` that `NoLostWakeup` adds). A job whose worker's reply is lost
  stays *running*. The error of `Listen` on the response topic is discarded; the deferred `Unlisten`
  then dereferences nil. A `GetInvocationById` with a wait on a finished invocation waits for its
  timer.
* *dispatcher*: `Close` between `getCh` and the send of `Dispatch` is a panic in the
  delivery goroutine; two `Close` calls may both close `d.closed` (the manager makes one).
* *notifier*: a client gives up after 5 seconds while the operation may take 10; the main
  loop then sends the answer to an unbuffered channel that nobody reads, and `Stop` hangs
  (hence `SlowOperations` is off in `notif_live`). The ping after 5 quiet seconds uses a context
  that was cancelled just before, so it reports nothing.
* *deployments*: a crash, an error that cannot be recorded, or a lost answer of
  `SetDeploymentDeploying` leave a deployment *deploying* for ever, and with it every later
  publish refused. A failed commit leaves S3 and the cluster on a suite the tables do not know. An
  edit of a config during a run reaches S3 and not the cluster. A restart that a publish overtakes
  rolls the older configs out last. `UpdateDeploymentLastError` may set a deployed deployment to
  *failed*, as it does when the answer of its commit is lost; its suite stays active.
* *access*: a rotation makes tokens that had expired valid again for the grace period, and
  shortens or lengthens others. When the first of the requests that share a fetch hangs up,
  all of them are answered 401.
* *Kubernetes controller*: `Status.Failed` counts pods, so a job that would have succeeded
  at a retry is reported failed, and goes on. Overlapping roll-outs may delete each other's
  secrets.
* *migrator*: a run stopped between applying and recording, and two processes at once,
  leave versions in force that are not recorded, on which each later run fails.
* *suite store*: `lastSync` is set before the work, so a failed sync suppresses retries for
  a minute, which are answered 201; `lastUpdated` is a plain map written by concurrent
  requests. Two syncs may leave the older content of an object for good.

## 5. Proofs

TLC shows the properties on the instances of section 3; the proofs show them for every value
of the constants that the modules' assumptions admit. Every invariant that a passing run
checks is a theorem, and so are the action property `OptionsAreMet` and the refinement
`KeepsPromise`.

### How they go

Hardly any of the properties is inductive: each speaks of the end of a chain of steps (what a
caller was told, what is deployed, what the table holds) and says nothing of the states in
between. So each proof module defines, first thing, an inductive invariant `IInv` that says what
a handler, run, call or sync knows at each of its places. It then proves `Init => IInv` and
`IInv /\ [Next]_vars => IInv'`, the latter a conjunct of `IInv` at a time, and the theorems
follow. The lemmas on who writes what (`Writers`, `...Fields`, `...Leaves`, `Moves`) come first:
with them a conjunct needs a step for each action that writes its variables, and one for all
the others together.

### What is proved

**`InvocationProofs`**, for any number of actors, workers, callers, rows and faults.

| theorem | states |
|---|---|
| `TypeCorrect`, `HandedOverOnce`, `NotifiedRowsAreFinal`, `WokenIsAnswered`, `AnswersStand` | `Spec => []TypeOK`, `TakenOnce`, `ResponsesAreTrue`, `WokenCallersGetResults`, `FinalAnswersStand` |
| `ImplementsQueue` | `Spec => KeepsPromise`: the handlers refine `InvocationQueue` |
| `AnnouncedOnce` | `Spec => []OnceInv`: the response of a row is with one Return handler, or at one place of the stream, or once in each `responseCh`, under all faults and repeated returns |
| `SyncIsAnswered`, `MissedAreRead` | `Spec => []SyncResponseNotMissed`, `MissedResponsesAreRead`, for every size of a `responseCh` |
| `WakeupsArrive` | if `RoomForAll`, `Spec => []NoLostWakeup` |

What a caller was told depends on what was in its `responseCh`, that on what was in the
stream, and that on the row being final when it was sent. So `IInv` says: ids are dense and
every row has a queue (`TableInv`, with `TakenOnce`); a worker at `"notify"` holds a final row
(`WorkerInv`); every response in the stream or in a `responseCh` names a final row
(`ResponsesAreTrue`); a caller woken by a match holds a final row, and a final answer is the
row's state (`CallerInv`). All of it leans on `TableGrows`: no step changes a final state or
a row's queue. For the refinement, three actions write the table, each a step of
`InvocationQueue`; the others stutter.

`SyncIsAnswered`: a synchronous caller is subscribed from before its insert (`HeardInv`), and each
delivery appends to its `responseCh` unless that is full, which puts the caller into `missed` if
the response was its own. Nothing is assumed of how many invocations there are: a `responseCh` does
overflow. `MissedAreRead` says what that costs. The row was final when its response was dropped, so
the read that the timer leads to returns a result (`MissedInv`); and as a row is announced once
(`OnceInv`) and the responses in a `responseCh` differ, a full one stands for as many other rows
that are final. A caller can miss its answer on a server that finishes 64 other invocations
before it reads one.

`WakeupsArrive`: while a handler is parked, at most one available invocation of its queue per fault
is without a wake-up on its way. `NoLostWakeup` says nothing while nobody is parked, and that is
when `Dispatch` buffers tokens, or drops them at a full channel; nor of a client that has hung up
and whose handler has still to spend a token. `Wakes` counts the buffered tokens and those handlers,
and says what holds after a drop: nobody is parked, and there is a token for every handler between
its poll and its wait, so none of them parks. `RoomForAll` is what makes that so: a place in the
channel for each GetNext handler of the actor (32 in the code). It is needed: with two
handlers and one place TLC finds a handler parked beside two available invocations. An actor
that polls with more than 32 requests on one server can lose a wake-up; the handler's own timer
ends the sleep.

**`DispatcherProofs`**, for any number of goroutines, ids and calls, any capacity, and any
operations. `Types`, `OneChannel`, `PayloadsInReach`, `ListenersHeard`: `TypeOK`,
`OneChannelPerId`, `PayloadsStayInReach`, `ListenersAreHeard`. `IInv`: what a goroutine holds at each
point of its call (`CallInv`); one Close at a time is past `close(d.closed)`, and what it has
yet to close is in the map (`CloseInv`); a payload has one sender and is sent once (`SentInv`); a
channel serves one id for good, also after Close has taken it out of the map (`ServesInv`), so that
a payload is received for the id it was sent for; an id that was listened for keeps its
channel until Close (`HeardInv`). That there is always a number left for a new channel is by
counting the calls that may make one (`MadeInv`).

**`NotifierProofs`**, for any number of clients, topics and faults. `Types`, `ChannelDrained`,
`ConnectionOpen`: `TypeOK`, `NoInterruptLeftBehind`, `OpenWhileInUse`, also when clients block
or time out. `IInv`: what `isWaiting` and `isStarted` say of the main loop (`MainInv`), and that
a client in a call that waits for the main loop is among the subscribers of its topic, so that
nobody else starts one for that topic (`ClientInv`).
`NeverBlocks`: `Spec => []PushNeverBlocks` if `Cardinality(Topics) <= Capacity` and
`~SlowOperations`. By `ClientInv` and `QueueInv` there is at most one interrupt a topic in
`waitInterruptChan`, which therefore has a place for the next. The program has two topics and 10
places; that an operation ends within the client's 5 seconds is not guaranteed, as it may
take 10 (section 4), and without it a client that gave up leaves its interrupt behind and may
push another. `Kept`: `ManagerSpec => []ListenedWhileKept`, by `KeeperInv`: the manager's own
subscriptions are made before the main loop starts, and no UNLISTEN of their topics is under way
while they stay.

**`DeploymentProofs`**, for any number of requests in flight, deployments, keys, restarts and
faults. `Types`, `OneDeployed`, `DeployedMigrated`, `ClusterKeys`, `Everywhere`: `TypeOK`,
`DeployedIsActive`, `DeployedWasMigrated`, `ClusterKeysAreKnown`, `PublishedEverywhere`. `IInv`:
whoever is past the migrations has seen them succeed (`MigrationsInv`); one run at a time is
past `ConfigSuiteActivate`, as it holds the suites' row locks (`OnePublishes`); a new key is
nobody else's until it is committed (`KeyInv`), the key in the cluster is committed or about to
be (`ClusterInv`), and S3 and the cluster hold the deployment of the run that is past writing
them, otherwise the deployed one (`StoreInv`, `RolloutInv`, with `ReadInv` on the configs).

**`AccessProofs`**, for any number of actors, tokens, requests and ticks, and any time to live,
duration of a fetch and grace period. `Types`, `LetInInTime`, `KeptOutInTime`: `TypeOK`,
`AcceptedWereValid`, `ValidAreAccepted`. `IInv`: what a fetch found, and what the cache holds, was
valid at or after the time the fetch began, unless it is refused now (`SoundInv`); it mirrors the
row of its token, or that row was not settled since (`CurrentInv`); fetches and entries are not
older than they may be (`AgeInv`); a token's permissions are those of its row (`GrantInv`). That
no gate refuses the holder of every permission is a fact about the table of operations
(`GatesHaveKeys`). `Grants` are sets of permissions, `Expiries` points in time.

**`K8sControllerProofs`**, for any number of calls, whatever deployments, services, ingresses
and migrations they are given, and any bound on overlaps and faults. `Types`,
`DeploymentsCanStart`, `ReturnedSetIsApplied`, `MigratedBeforeDeployed`: `TypeOK`, `PodsCanStart`,
`SetIsApplied`, `DeployedAfterMigrations`. The argument is about lists of API calls: what is in them
(`Within`) and what comes before what (`Ordered`), for the items the loop goes through
and for the deletions. `IInv`: what is left to do goes with the phase and the item of the call,
deletes nothing the set asks for, and puts the key and the account before the deployment
when creating and after it when deleting; each round of the loop leaves the items before it
applied. Assumed of the constants: the calls, and the jobs of each, are finite in number,
`None` and the mark of an edited key are no calls, and a set names each deployment once.

**`SuiteStoreProofs`**, for any number of syncs and of names, any page size and any bound.
`Types` (`TypeOK`), `PassedOverIsCopied` (`UnchangedIsCopied`), `SuccessIsCopied`
(`SyncedIsCopied`). `IInv` relates, for each object that is not `muddled`, the listing of each sync,
the remembered time, what was read and the table: what was listed is not older than
what is remembered, and copied if it is the same (`Compared`); what was read is current unless
the object was rewritten since it was listed (`ReadOk`); what a sync has gone past is copied
(`Passed`); while one sync copies an object, what others listed of it meanwhile is not older
(`Apart`).

**`MigratorProofs`**, for any number of processes and migrations and any options. `Types`
(`TypeOK`), `RowsAreInForce` (`InStep`), `OptionsMet` (`OptionsAreMet`). `IInv`: while no run has
failed or overlapped another, at most one is under way, and what is in force, what is recorded,
what it did and what it has left are intervals fixed by the level it found and the level it
should leave (`Rises`, `Sinks`, `Stands`). The lemmas before it say which interval `Targets` is
under each option. Assumed: there is a set of options to pass, and no options are zero values.

### What is only model-checked

Liveness: `PromptHandOver`, `PromptResponse`, `EveryCallAnswered`, `CloseReleasesWaiters`,
`InterruptsReturn`, `StopCompletes`, `RunsEnd`. The prover has no fairness and no ENABLED, and
the backend for temporal steps only combines facts about single steps. The two disagreements of
section 4 are counterexamples of TLC. What the modules assume of the code, above all where
a handler is cut into steps, is in neither.

## 6. Plan

The invariants are proved; what would say more, in this order:

1. `Dispatcher` and `Invocation` together: the single-step dispatcher of `Invocation` as what
   `Dispatcher` implements before `Close`. `OneChannel` and `ListenersHeard` are the facts
   it rests on; the refinement mapping is not written down.
2. `Invocation` with a second server process on the same database, whose notifications reach
   both: `KeepsPromise` should stand, `NoLostWakeup` has to count per process.
3. What survives the faults that the properties exclude: `ClusterKeysAreKnown` and
   `PublishedEverywhere` after the first run that succeeds again.

To model further, if it earns its place: `notificationBuf` and the delivery goroutine in
`Notifier`, composed with `Invocation` (today a loss is a fault there); a second Start of a
service; reviewers of deployments.

## 7. Not modelled

* base service: cancellable sleeps and a backoff formula over floating-point numbers;
  `Notifier` has the sleep as `Backoff`.
* kube config validation: string checks and parsing, without state.
* settings: one statement that merges one row.
* server and command line: start-up wiring; any failure ends the process.
* LLM adapters and the MCP agent list: conversions for remote services, one read-only query.
* generated API and query code: no state of its own; the parts that decide something (which
  parameters and bodies a handler refuses, the rows a query touches) are in the modules
  above, at the lines `PROJECT.json` names.
* utilities, test helpers, the Postgres and AWS libraries, and Kubernetes itself, which appear
  only through what the code relies on.
