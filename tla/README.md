# Formal models of the MCP gateway

This directory holds TLA+ models of new-mcp, a Go server that stands between MCP clients and
the MCP servers ("services") they use: it connects to services on demand, shares connections
and child processes between requests, sells calls of marketplace services against a quota, runs
image, audio and video generation as persistent tasks, and passes notifications and events on to
streams and webhooks. The models are written from the source under `src/` (paths below are relative to
it). TLC checks them on small instances; TLAPS proves the main safety results for every value of
the constants.

Contents: [the system](#the-system) · [modules and code](#modules-and-code) ·
[runs](#runs) · [fairness](#fairness) · [proofs](#proofs) ·
[what the checks found](#what-the-checks-found) · [limits](#what-is-not-modelled) ·
[plan](#plan)

To run: `tlc -workers 2 -config <Run>.cfg <module>` and `tlapm <module>Proofs.tla` in this directory.

## The system

A client's request passes the rate limit and authentication of `middleware/`, is dispatched by
`internal/mcp/handler/gateway_handler.go`, and (for a tool call) leases a session from the pool,
takes money if the service is from the marketplace, calls upstream, settles, releases, and
writes its log row from a goroutine of its own. Everything else runs beside it: edits from
the web console, watchers of connections, reapers, schedulers of tasks, a clean-up of files, feeds
of events. Most state is rows of a database (SQLite, MySQL or PostgreSQL); each statement commits on
its own unless a transaction is named. Several processes may share one database.

| Component | State | Operations | Who else touches it | What is hard |
|---|---|---|---|---|
| Gateway requests (`handler/gateway_handler.go`, `handler/resources_prompts.go`, `smart/semantic_search.go`) | registered requests with their contexts, parts and slots of a fan-out, the queue of log rows, `closed` | register, dispatch, call, read, list, rank, cancel, answer, log, close | edits of groups, shutdown | a deadline or cancellation against a late answer; what is checked once and used later |
| Session pool (`bridge/session_pool.go`) | map key → session under `p.mu`; lease counts; row flag `passive_connected` | connect, lease, release, attach, remove, reap, close | edits in `service/`, `router/passive_ws.go`, watchers | connect outside `p.mu`; removal and closing are two steps |
| Connect locks (same file) | map key → mutex with reference count | lock, unlock | the pool | the entry goes before the mutex is unlocked |
| Catalog worker (same file, `transport/sdk_adapter.go`) | pending notices, one job, caches of the row | notice, refresh, retry, write | edits, sessions replaced | an answer arrives after its session was replaced |
| Key selector (`bridge/key_selector.go`, `service/service_keys.go`) | keys in memory and in rows | pick, disable, append, enable, delete | owners, connections | the selector is built from rows read before an edit |
| Billing (`billing/`, `model/user.go`, `model/api_key.go`) | `quota`, `used_quota`, key budgets, log rows | hold, settle, refund | redemption, administrators, profile edits | no transaction, errors ignored, a soft idempotency check |
| Marketplace and its prices (`service/marketplace.go`, `billing/pricing.go`) | items, references, group rows, a cache of prices | publish, edit, install, synchronise, delete, price | administrators, users, calls | rows read in one statement and saved whole in another |
| Image tasks (`internal/imagegentask`) | rows with leases, stored results, images | submit, claim, process, save, retry, delete, clean up | workers of all processes | a paid request without idempotency upstream; leases that run out |
| Video tasks (`internal/mcp/videogen`) | rows with leases and revisions, jobs upstream, objects | submit, poll, download, retry, delete, expire | workers, clean-ups | a lost answer leaves a job nobody knows of |
| Audio tasks (`internal/mcp/audiogen`) | rows with leases, captured inputs, staged results, assets | submit, claim, stage, publish, save, sweep, retry, delete | workers, sweeps, clean-ups | no revision: an update compares only what its `WHERE` names |
| Blob store (`internal/imageasset`, `service/upload_cleanup.go`) | blobs by content, rows of users | save, refresh, reap, delete | all tasks, uploads | a reference count over two stores |
| Events (`internal/mcp/events/manager.go`) | feeds with trimmed rings, readers, sources | publish, stream, poll, sweep | tasks, sessions | cursors behind the ring, lost wake-ups |
| Webhooks (`events/webhook.go`) | subscriptions, workers, cursors of callbacks | subscribe, renew, end, deliver | feeds, revoked keys | renewal against a worker on its way out |
| Subscriptions (`handler/subscriptions.go`, `legacy_subscriptions.go`, `transport/notifications.go`) | streams, slots, attachments, shared watches | open, attach, watch, deliver, stop, close | sessions, shutdown | an attachment that answers after its stream has given up |
| Virtual service events (`virtual/events`, `virtual/adapter.go`) | generation, Redis stream, adapters | commit, send, catch up, observe | every instance of the server | a signal between a read and the subscription |
| Cloud endpoints (`internal/mcp/cloud`) | map id → client | start, stop, reconnect, delete | a goroutine per client | deletion by id, not by identity |
| Camera streams, rate limits, verification codes, options | a map under one mutex each | single critical sections | – | little |
| API keys, accounts, set-up, groups | rows | read, save the row | each other | whole-row saves |
| Ranking of search results, transports, model clients, installer, storage, front end | none shared, or I/O | – | – | not for a model checker |

What makes each correct, in a line:

* **gateway requests**: a client is answered only once every part of its request has given back its session and
  settled its hold; a call goes only to an entry that the groups allowed since the request came; no log row is
  lost when the gateway closes; nobody waits for ever.
* **pool**: one live process per key, none forgotten, none published after shutdown; leases are
  counted and never reaped; a passive session is there on the credential the row has now; every
  request is answered.
* **connect locks**: mutual exclusion per key although the lock object is recreated; waiters get in.
* **catalog**: the row has the upstream's lists or somebody is still to bring them; no older list
  comes back.
* **keys**: a key is put out of use only if it was refused itself; an edit reaches the selector.
* **billing**: money is neither lost nor made; overdraft, key budgets and double charges have
  bounds that do not depend on how many calls there are.
* **marketplace**: an installed reference is on only while its item is offered; no price is
  charged that was replaced before it was asked for.
* **image, video, audio tasks**: a paid request goes out once per generation the user asked for; an
  accepted task comes to rest; what is called completed is complete; whoever is answered is answered for
  his own input.
* **blob store**: a row has its blob, a blob has a row.
* **events, webhooks, subscriptions, virtual services**: nothing is skipped in silence; who waits
  will be woken; what was taken is given back once.
* **endpoints**: after a disconnect nothing is open.

The complete list of components, the hazards with their lines and the mapping of every definition
to lines of code are in `PROJECT.json`.

## Modules and code

```
KeyedLock <-- KeyedMutex             SessionPool (assumes KeyedLock)     Catalog   EventFeed   Webhooks
GatewayCalls (leases what SessionPool has, moves what Billing counts)
OneShotGeneration <-- ImageTask      PaidGeneration <-- VideoTask, AudioTask (both extend MediaTasks)
Billing   KeyRing   Marketplace   BlobStore   CloudEndpoints   Subscriptions   VirtualChanges
for TLC:    MCCalls  MCFlows  MCMedia  MCParts  MCComponents  MCGateway  MCSessionPool  MCImageTask  MCBilling
for TLAPS:  GatewayCallsProofs (KeyedMutex, GatewayCalls)  SessionPoolProofs  ImageTaskProofs
            BillingProofs
            ComponentsProofs (KeyRing, BlobStore, Marketplace)   MediaProofs (VideoTask, AudioTask)
            EventProofs (EventFeed, Catalog)   GatewayProofs (Webhooks, Subscriptions, VirtualChanges)
```

`A <-- B` means that B is shown to implement A. Definitions named `...Forgotten`, `...Unchecked` and
the like, with the comment "(to test the checks)", are deliberate mistakes that no specification uses.
Replacing the definition they stand beside by them must break the property that `PROJECT.json` names;
that shows that the property says something about the code.

A database statement, a request to another system, a storage call and a critical section are one
step each; whatever happens between two of them may interleave. Faults (a failing statement, a
stopped process, a lease that runs out under its holder) are actions of their own, counted against a bound.

### KeyedMutex and KeyedLock

`lockConnect`/`unlockConnect` (`session_pool.go:475-498`). `TakeRef` is the critical section that
finds or creates the entry and counts a reference, `Lock` the acquisition of its mutex, `DropRef`
the section that counts down and deletes the entry, `Unlock` the unlock after it. Mutexes are
identities that can be reused once nothing refers to them. `KeyedLock` is what callers assume:
request, enter alone, leave; `KeyedMutex!Abstract` maps `locking` to waiting and `held` to inside.

### GatewayCalls

The life of a request: `phase` is where `HandleRequest` is, `alive` its context, `at` where each of its parts
is, with its lease (`leased`), its hold (`hold`) and what upstream returned (`result`), `row` the log row, `access` what
the groups of the API key say of the entry, `closing` where `Close` is. The methods are those without a call (`plain`,
`search`), one call (`tool`, `execute`, `read` of a resource or prompt), and those that fan out under a
semaphore: `batch`, `list` over the services, and `rank`, the waves of choices of a smart search.

* **request** (`Refused`, `Arrive`, `Register`, `Inform`, `Search`, `Invalid`, `Empty`, `Dispatch`, `Gather...`,
  `NextWave`, `Leave`): a task counted by `workWG`, the registration under `streams.mu`, one answer;
* **part** (`TakeSlot` → `Scope` → `Route` → `Lease` → `CheckTool` or `CheckItem` → `Price` → `Upstream`, `Deadline` or
  `Cancelled` → `Settle`): each may refuse; a lease that loses its session goes back to the route once. The deadline of a
  call exists only for `execute` and `batch`;
* `WriteRow`: the goroutine that writes the rows of a request in order; `EditGroups`; `Cancel`; `Close` with
  `WorkEnds` and `LogsEnd`; `Restart` and `Again` begin anew.

Statements may fail (`dbFails`): a failing read of the filters leaves an entry enabled (`ToolAccessible`,
`CheckItem`), as in the code. Left out: notifications without an id, the wording and headers of messages, what
listings contain, the numbers a ranking computes, and the conversion of results.

### SessionPool

State: `pool` is `p.sessions`, `closing` the sessions that left it and whose `Close` is still to
come, `conn` the connection of an adapter, `inUse` the lease count, `status`, `ver`, `online` the
service row. Actors, one action per critical section:

* **request** (`Request` … `Release`): `GetOrConnect` with the double check and `Acquire`'s retry;
* **passive handler** (`Accept` … `HandlerReturns`): `HandlePassiveWebSocket`, with the token check
  under the connect lock and `publishSessionLocked`;
* **watcher** (`WatchFires` … `WatchEnds`): `observeSession`, `removeIfCurrent`;
* **edits** (`EditBegins` … `EditEnds`): `McpServiceService.Update`/`Delete`/`ResetPassiveToken` under
  the lock, marketplace edits without it. A switch saves the whole row, with the flag it had read;
* `Reap`, `StopProcess`, `CloseAll`, `CloseAdapter`, `Drop` (a lost connection) and `Restart`.

The connect lock is held exactly at the program points `CallersInside`, `WatchersInside`,
`InboundInside`, `EditInside`, so `LockFree` is a predicate and not a variable. That this is
what the real lock gives is the refinement `ImplementsKeyedLock`. `Kind` gives each key
one of the four ways sessions are shared. An adapter is created once per run of the server
(`Restart` frees all of them), so their number bounds the connections of a run.

### Catalog

One service: the upstream's lists, the adapter's copy, the caches of the row. Each session connects
and is published, hears notifications, refreshes its tools at once (`refreshLoop`) and leaves the
other lists to the worker, whose job reads, is checked against the pool under `catalogMu`, writes, and is
retried after a failure; a user's refresh is a job too. Resources, templates and prompts are fetched and
written alike and stand as one list. Left as the code has it: `refreshLoop` (`sdk_adapter.go:308`) drops a
notification when its one `RefreshTools` fails.

### KeyRing

The rows of one pool of upstream keys, every edit of them (`AppendRead`/`AppendWrite`, `Replace`,
`SetKeyStatus`, `EnableAll`, `DeleteKey`, `DeleteDisabled`, `DeleteAll`, then `Invalidate`), the registry of
selectors (`GetRing`, `ReadPool`, `BuildRing`: the rows are read while `r.mu` is held), `Pick` in both modes,
and what a refusal leads to: `DisableInRing`, then `DisableRow`, which finds the row by its
number. `AppendKeys` numbers by the count of rows, so after the deletion of a middle key a new one collides and
is refused. The pools of marketplace items are the same code.

### Billing

One account with its API keys and one priced entry. A call walks through `PreConsume`
(`CheckCharged`, `ReadUser`, `Decide`, `TakeUser`, `TakeBudget`/`TakeOpen`, `GiveBack`), the
upstream call, `Confirm` (`DebitUser`/`DebitKey` if it was trusted, `ExcessUser`/`ExcessKey` if it
held more than the price, `AddUsed`) or `Refund` (`BackUser`, `BackKey`), and `WriteLog`. One
action is one statement; `Statement(FALSE)` is a statement without effect whose error is ignored
(`_ =` in the code), `TakeUserUnanswered` one that commits although its caller sees an error,
`Abandon` a goroutine that ends half-way. Such events are *slips*, counted in `slips`.
Redemption codes, an administrator's subtraction and edits that read a whole row and save it
again change the account at the same time. History variables (`granted`, `charges`, `redeemed`,
`restored`, `stale`) record what no column does. A request id of `LongRids` does not fit its log row, which stores 64 bytes
of it (`truncate`), while `HasChargedRequest` asks for the whole: its row is never `Findable`.

### Marketplace

One item, the references by which one user installs it (by name: the item's, with -2, …), their rows in a
group, and the price cache. Administrators publish, edit (read, save, then synchronise or disable the
references), refresh snapshots, delete, and set prices with an invalidation after it; the user installs
(`AddRead` … `AddInsert`), edits under the service lock (`EditRead` … `EditClean`), synchronises and deletes;
calls load the cache under its lock (`LoadItem`, `LoadEntries`). Where a late whole-row save undoes what another
statement did, the reference is marked `strayOn`, `straySnap` or `strayMember`: the code accepts those, and
the property is about all others. `PoolStores`: a session writes the lists its upstream has served to the row it was opened
for, a shared process to all enabled references (`session_pool.go:257`, 713, 737); the administrator's lists are then
overwritten, so these references are in `straySnap` too.

### ImageTask and OneShotGeneration

A task is a row (`status`, `artifact`, lease, snapshot with or without the upstream key,
`resultKey`, idempotency key and input hash), a stored result (`spool`) and attached images.
Callers run `Submit` (`Lookup`, `Create`, `CreateConflicts`); workers run `process` (`Claim`, `StartRunning`,
`Post`, `AnswerUnknown`/`AnswerRejected`/`Spool`, `Checkpoint`, `SaveImage` per image,
`FinishSave`, `RemoveResult`); `RecoverRunning` is what the scheduler does to a running row whose lease ran
out; `Delete` is three steps under a lease of its own. A lease expires whenever the model says
so, also under a live worker (bounded by `MaxFaults`). Every action that writes a row carries
the ownership test the code's `WHERE` has, and none where it has none. `posts` counts paid requests.

`OneShotGeneration` says what a user is promised: phases none → pending → submitted → generated →
settled, the paid request sent at most once and only after submission, saving alone may be
repeated, and a task that is accepted is settled or reported as unknown.

### PaidGeneration, MediaTasks, VideoTask and AudioTask

`PaidGeneration` is the promise for tasks that may be generated again: at most one result is paid for
at a time, each generation is answered at most once, one is repeated only after another that is known to have given no
result, an unknown outcome stays unknown, only the saving of a result is repeated freely, and a task in progress is not
deleted unless a lease ran out under its holder (`late`). It does not promise that a failed generation cost nothing: an answer of
no use (`Waste`, `spent`) may have been charged, and the generation that follows it is charged again. A video task never
takes that step: an answer to a submission which is not certainly a refusal leaves it unknown. `MediaTasks` declares
what the two managers share.

*VideoTask* (`videogen/manager.go`): the row, and upstream one job per attempt. `Submit`, `Launch`, `PostVideo`,
`Finish`; `ClaimDue`, `Query`, `Reserve`, `Fetch`, `Put`; `RecoverSubmitting`, `Reconcile`, `Resume`,
`RetryDownload`; `Retry` after `ReadFailed`; deletion and expiry (`VideoDeleteRead`, `VideoDeleteClaim`,
`ExpireClaim`, `Erase`, `Drop`). `revision` is not a number: `fresh` holds the actors whose copy of the row
is current. The quota that a download may exceed is a free choice (`SaveFails`), and a failing update in `Finish` is
the worker's stop.

*AudioTask* (`audiogen/manager.go`): inputs are captured before the row names them (`SubmitCapture`,
`CreateRow`; `RetryRead` … `DropOld`), a worker claims under the concurrency limit, posts (`PostAudio`: a result, an answer of
no use, a refusal, or no answer), stages payload and marker, publishes, and another saves (`ClaimSave`,
`ReadStage`, `Clear`, `SaveAudio`, `CloseSave`); the sweep completes or
gives up a run without a lease; `Delete` and the clean-up of snapshots remove what they read. Left as the code has
it: an answer of no use fails the task (`wasted` remembers the attempt), and a retry that loses leaves
its captured input behind; a save asked for again during a deletion that then
fails (`RetrySave`, `manager.go:543`) can miss its staged result, which `ResultKept` exempts. The expiry of
assets is left out.

### BlobStore

Rows and blobs as two stores. A saver looks up, counts, puts and creates; a presigned slot is opened,
written and marked; an eraser deletes a row, counts what is left and erases the blob. `adrift` marks the losses
the code accepts: a blob whose deletion failed is never tried again, and a write to a slot after its row was
reaped has no row.

### EventFeed, Webhooks, Subscriptions, VirtualChanges, CloudEndpoints

*EventFeed*: the feeds of one subscription key. The first reader sets up the source; a ring of `RingSize` events
is trimmed; streams attach, send their batch, wait on the wake-up channel (a counter that tells whether it was
closed) and leave; polls read; a feed fails, is swept or is closed, and the next one has another epoch.

*Webhooks*: requests under `webhookMu` verify, refresh or attach; the worker of a subscription authorises,
reads a batch, posts each event up to `Attempts` times, tells gaps, waits, and ends by expiry, revocation, a
failed feed, unsubscription or shutdown. The callback's cursor outlives the subscription. Signatures, `maxAge`, payload
sizes and limits are left out. `revived` marks a subscription that was renewed when its worker had seen it expired and was
leaving: the worker removes it all the same (`webhook.go:566`).

*Subscriptions*: streams and legacy sessions of one upstream and one resource. A stream takes a source slot and an
attach slot; a goroutine leases the session, watches under `watchOperationMu` (only the first watcher subscribes
upstream), acknowledges and hands the source over, or gives it back when nobody waits; supervisor,
monitor and listener end it for any of their reasons; `Close` cancels and waits for `workWG`. The buffer of a
stream may be filled by other messages. The upstream answers in order.

*VirtualChanges*: a commit raises the generation, is dispatched in its own instance and sent to the Redis stream; readers of
other instances dispatch it, reconnect after a failed read and catch up; an adapter resolves, stamps,
subscribes, checks and then observes, rebinding when its configuration changes. `forgotten`: an instance that stops between its
commit and its send loses the change for the others.

*CloudEndpoints*: one endpoint, its clients, the map entry, and the requests that restart, stop or
delete it (`StopAll` at shutdown and the backoff are left out). `early` remembers the clients that were stopped before
they had connected.

## Runs

Components that share no state are checked in one run: a behaviour picks one of them (`kind`) and leaves the
others in their initial state, so the states add up and do not multiply.

| Run (cfg) | Instance | States | Shows |
|---|---|---|---|
| `flows` (Flows.cfg) | a shared process with 2 requests, 2 connections and limit 1; a passive service with 2 sockets and one edit; 2 sessions of a service, one change of each list, one failure; 2 readers, 2 feeds, one event, a ring of 1 | 1 410 963 | limit, reaper, one process, no leak, admission of passive sessions; lists settle and never go back; no silent gap, no lost wake-up |
| `calls` (Calls.cfg) | 3 goroutines, 2 keys, 3 mutexes; 2 requests and the watcher on one lock | 17 168 | refinement of `KeyedLock` with liveness, and with it mutual exclusion; every call is answered, a lost connection leaves |
| `parts` (Parts.cfg) | 2 requests with one idempotency key, 2 inputs, 2 workers, a deleter, 2 images, 2 faults; 2 administrators, 2 requests, one reference, 2 operations; a gateway request of any method with 2 parts and 1 slot, or 2 requests of which 1 may be registered, one edit of the groups | 830 394 | answers, completeness, no orphans; references follow the item, no stale price; answered is settled, calls are allowed, no row dropped, nobody stuck |
| `components` (Components.cfg) | 2 calls at a time, 3 in all, a budgeted and an open key, a request id that fits its log row and one that does not, 1 slip, 1 edit; a video task with 2 workers, 2 callers, a deleter, 1 fault; an audio task with 2 inputs, 2 workers, 2 clients; a key pool with 1 connection and 1 editor; 2 savers and 2 erasers on a blob and a slot | about 1 887 000 | the bounds of billing; objects accounted for; files kept; only refused keys are disabled, edits reach the selector; a blob has an owner |
| `media_live` (MCMedia.cfg) | one task of each kind, 2 workers, a deleter, 1 fault (2 for images) | 205 365 | the three managers implement their abstract specifications, liveness included |
| `gateway` (Gateway.cfg) | a stream and a legacy session, 2 source slots, 1 attach slot, a buffer of 1, one change, one trouble; 2 webhook subscriptions, 2 attempts, 2 events, a ring of 1; 2 instances, one with an adapter, 2 commits, 1 break | 2 223 545 | sources returned once, no update lost, `Close` waits; cursors never ahead, one worker; no change missed |
| `pool_disable`, `image_delete`, `billing_save`, `blob_erase`, `catalog_tools`, `cloud_stop` | the smallest instances that reach it | violation | see [below](#what-the-checks-found) |

Why these bounds are enough. The hazards are races of two actors and a third who
changes the ground: two requests, two workers or two sockets are the racing pair, an edit, a deletion or a
shutdown is the third. Three mutexes for three goroutines: one is always fresh. Two
images make "some, not all" possible, two inputs of an audio task two attempts. In billing the
amounts are chosen so that every branch is reached: the starting balance is just above the trust limit and
just enough for one hold, two trusted calls at once overdraw it, a hold is more than a price, a key's budget is
trusted at first and exhausted after one hold, and the redemption refills the account. The long request id comes only with the
key that has no budget, before the first failure and edit (`LongIdsOnOpenKeys`, a state constraint): it differs in the check
and in the log row, and the others in between. A ring of one event is
behind after two; one attach slot makes the second stream wait. One slot of a fan-out makes the
second part wait, and one edit of the groups is enough to fall between any two checks of a call. Where a bound leaves a case out, the proof
covers it: key pools with several connections and editors, several references (two names, concurrent installs),
several faults, any number of events, changes and commits. Two requests that retry the same failed task,
a sweep against a live worker, and a renewal against an expiry do occur within the bounds, as the
mutants of `PROJECT.json` show: each is a plausible mistake that the run must find.

`SYMMETRY` is used only in runs without liveness properties, on sets of interchangeable actors. (With it
the number of states a run counts varies a little with the order in which they are found.)
`CHECK_DEADLOCK FALSE` is set where the number of requests, changes or faults is bounded: when they are
spent there may be nothing left to do.

### Properties of billing

* `MoneyAccounted`: granted = balance + used + in flight, up to one hold missing or one price in
  excess per slip. With no slip it is exact. (Excluded: behaviours in which a
  stale whole row was saved, the subject of `billing_save`.)
* `OverdraftBounded`, `KeyOverspendBounded`: the code accepts "bounded overspending" of trusted
  calls (`billing.go:164`) without naming the bound. It is one price per call in flight (plus one
  administrator's subtraction, which checks a balance it read before).
* `KeyCoversHolds` (a theorem): `used_quota` of a budgeted key covers the holds in flight, so no refund
  returns more than was taken, whichever statements failed.
* `RetryChargesBounded`: `HasChargedRequest` makes a retry free only once the log row of the first
  call is written. A request id that fits its row is charged at most once per overlapping call, and once more per
  lost row or failed check; one that does not fit is charged at every retry.
* `CodePaysOnce` (a theorem): a code pays once, unless a status edit saved a row read before the redemption.

## Fairness

Fairness is assumed only of goroutines that are already under way, and only where the code bounds
what they wait for. In `SessionPool` each step of a request, handler, watcher or edit is weakly
fair because each dial, statement and `Close` carries a deadline; the connect lock is strongly fair
because Go hands a `sync.Mutex` to a waiter after a millisecond of starvation. Requests,
sockets, edits, the reaper, lost connections and restarts are not assumed to happen. In the media tasks the
schedulers' tickers make claims, recovery and sweeps weakly fair, a worker's step is fair because every call it
makes has a timeout, a video that is polled again and again is given up at its deadline (strongly fair), and a
lease whose holder has gone runs out in time;
crashes, retries and deletions are not assumed. The other modules have safety properties
only: what they promise is that nothing is lost or taken twice, not when it comes.

## Proofs

All theorems are about the specifications TLC runs, with only the `ASSUME`s declared in the modules
(disjoint or finite sets of actors, non-empty sets, bounds that are natural numbers, amounts with a positive
price not above the hold). They hold for every number of actors and every bound.

| Module | Theorem | Says |
|---|---|---|
| GatewayCallsProofs | `MutexSafe`, `EntriesExact` | `MutualExclusion`, `EntriesInUse` |
| | `RefinesKeyedLock` | safety part of the refinement |
| | `RequestsType`, `RequestsSettled`, `RequestsAllowed`, `RequestsLogged` | `CallsTypeOK`, `AnsweredIsSettled`, `CallsAllowed`, `NoRowDropped` |
| SessionPoolProofs | `TypeCorrect`, `LeasesCounted`, `LimitKept`, `ReaperSafe`, `ShutdownFinal` | `TypeOK`, `LeaseCountExact`, `SharedLimitRespected`, `ReaperSparesLeased`, `ClosedPoolStaysEmpty` |
| | `NothingLeaked`, `OneProcessEach` | `NoLeakedConnection`, `OneProcessPerKey` |
| | `AdmittedByRow`, `OnlineTrue` | `PassiveCredentialCurrent`, `OnlineMeansAttached` |
| ImageTaskProofs | `PaidOnce`, `AnswersFit`, `CompletedSaved`, `NoOrphans` | `OnePostPerTask`, `AnswerMatchesInput`, `CompletedMeansAllSaved`, `NoOrphanOutputs` |
| | `RefinesOneShot` | safety part of the refinement |
| BillingProofs | `TypeCorrect`, `MoneySafe`, `OverdraftSafe`, `KeyOverspendSafe`, `KeyRefundSafe`, `RetrySafe`, `CodeSafe` | the properties of billing |
| MediaProofs | `VideoType`, `ObjectsAccounted`, `RetriesAsked` | `VideoTypeOK`, `ObjectAccounted`, `RetryAcceptedOnce` |
| | `AudioType`, `AudioFilesKept` | `AudioTypeOK`, `FilesKept` |
| | `VideoRefinesPaid`, `AudioRefinesPaid` | safety parts of the refinements of `PaidGeneration`; for audio with answers of no use that may have been charged |
| ComponentsProofs | `KeyType`, `OnlyRefused`, `EditsReachRing` | `KeyTypeOK`, `OnlyRefusedDisabled`, `RingFollowsEdits` |
| | `BlobType`, `BlobsOwned` | `BlobTypeOK`, `NoOrphanBlob` |
| | `MarketType`, `ReferencesSafe`, `PriceSafe` | `MarketTypeOK`, `ReferencesFollowItem`, `NoStalePrice` |
| EventProofs | `FeedType`, `GapsTold`, `WakesSeen`, `SourcesStopped` | `FeedTypeOK`, `NoSilentGap`, `NoLostWake`, `SourceStoppedOnce` |
| | `ListsKept`, `NeverBack` | `ListsSettled`, and the action property `CatalogNeverGoesBack` |
| GatewayProofs | `CursorsSafe`, `OneWorker` | `CursorNeverAhead`, `OneWorkerPerHook` |
| | `NothingMissed` | `NoChangeMissed` |
| | `SubscriptionsType`; `SourcesSafe`, `UpdatesReach`, `CloseWaits` | `SourcesReturned`, `NoUpdateLost`, `CloseWaitsForWork` |

How they go:

* **KeyedMutex.** `MutualExclusion` is not inductive: it says nothing of waiters, whose mutex could be
  dropped. `IInv` adds that whoever waits or holds refers to the mutex the map has for his key, that a
  holder or unlocker owns it, that the map is injective, and that each reference count is the number of
  goroutines that refer to the mutex. Deleting an entry at count zero then cannot hit a waiter.
* **GatewayCalls.** None of its properties is inductive: each speaks of one end of a request's life. `PartInv` says of each
  stage of a part which phase and method its request has, whether it has a lease, a hold or a result, and what the groups must
  have said since the request came; a part that is done has given everything back. `RankInv` follows the waves of a smart
  search: a batch waits or is given up only beside another one, and is given up only when the context has
  ended or a batch has failed, so a last choice that stands alone was made and not given up; `HeardInv` carries that into the
  answer. `GatewayInv` says that a request inside has seen what the groups say now (an edit between two
  checks adds to `seen`) and that the log is closed only when no request is inside, so no row comes after it.
* **SessionPool.** `HandsInv` says where a connection can be: in the pool, being closed, or in the
  hands of exactly one party. It is needed to show that a fresh or published session is not already
  leased or reaped. `LeaseInv` adds that a lease count is the number of requests using the session and that a
  reaped session has none; the count can rise only for a session that is in the pool, and a reaped one never is.
  `OneProcessEach` adds who is inside the connect lock: a connection that lives outside the pool and is not being
  closed belongs to the one inside, who found the pool empty. `AdmittedByRow` adds what the
  edit inside the lock is about to remove.
* **ImageTask.** A worker may post although its lease is lost, so ownership does not bound `posts`.
  `OnePoster` says that at most one worker stands between `StartRunning` and `Post`, and only for a task never
  posted; it holds because `queued → running` happens once and nothing leads back
  to `queued` from a state after it. `Rows`, `Hands` and `Targets` tie status, snapshot, result and
  the program points together. For completeness the invariant follows how many images a worker has passed, which
  a second worker, starting later, can only repeat; the refinement follows action by action.
* **Billing.** For each bound the proof counts the calls that will still move money. `Worth` is what
  the account lacks because of one call; a step changes balance + used + worth by nothing unless
  it slips (`StepBalanced`), which is all `MoneySafe` needs. `OverInv` strengthens
  the overdraft bound by those who have *seen* a balance above the limit and will debit it:
  what they may debit is subtracted from what is allowed now. `KeyInv` does the same for the
  budget of a key, and `ChargeInv` distinguishes whether the log row exists: before it, each
  charge has its call still in flight; after it, only calls already past the check can charge. It speaks of the ids
  that the row keeps whole (`WholeRids`); for longer ones there is nothing to prove.
* **VideoTask.** `TaskFits` speaks of one task at a time: the row and the jobs upstream (`RowFits`: all jobs but the
  last cost nothing, and a failed row's last costs nothing either), each worker and deleter at it
  (`WorkerFits`, `DeleterFits`: an actor that is neither late nor out of date holds the lease it claimed),
  and the object in storage (`ObjectFits`). A step leaves every other task alone (`Apart`), so each action is
  examined for its own task. `VideoRefinesPaid` then names the step of `PaidGeneration` for each action.
* **AudioTask.** There is no revision, so the invariant says what an update's `WHERE` cannot see. `RowInputs` and
  `NewInputs`: no deletion, clean-up or retry under way knows the input of a row that waits or runs, because whoever knows an
  input read it from a row at rest. `GeneratorFits`: at most one worker generates an
  attempt; `SweepFits`: a sweep that found a result staged found a paid attempt whose worker can no longer fail.
  `DeletionFits`: a deletion that will put the old status back is the only one of its kind, and what it puts back is still
  true. `StageFits` and `AssetsFit`: the staged result stays until the assets are all there. Outside `late`, `HolderFits`
  gives the row to its worker. `WasteInv`, for the refinement, says that a generation which waits to be claimed or answered has had no
  answer of no use, so each is answered once.
* **KeyRing, BlobStore, Marketplace.** `RingFollowsEdits` needs what a builder has read before the edit that it will
  miss: the edit is still to invalidate. `NoOrphanBlob` follows from who counts: an eraser that found no
  row left, or a saver that found one. `ReferencesFollowItem` follows each late write from the read it is based on
  (`fresh`), and marks it when another statement has overtaken it; what a session writes is marked as such.
* **EventFeed, Catalog.** `ReaderFine` bounds what a reader has by the ring of its feed and its epoch, and a waiting reader's
  wake-up counter by the feed's. For the lists, the invariant says who is under way for each version that the row lacks: a
  notice, a pending request, a job that has not read yet, or a retry.
* **Webhooks, VirtualChanges.** `CursorNeverAhead` rests on the batch in hand: what is below it was settled.
  `NoChangeMissed` splits what an adapter lacks by who still tells it: a request not yet dispatched, an entry of the stream its
  reader has not read, a catch-up, a flag, or a check still to come because the generation moved after the
  stamp.
* **Subscriptions.** `CountInv` says what each counter counts: a slot, a reference, an attachment, and for the shutdown the
  goroutines at each program point. A step then moves a counter by what one stream takes or gives back (`CountStep`),
  and `CloseWaitsForWork` follows because a counter at zero leaves nobody who could start anything. `StreamInv` follows the
  source of one stream through its hand-over: `AttachPhase` while the goroutine has it, `OwnerPhase` once the stream or a
  clean-up has. For `NoUpdateLost` an acknowledged stream watches as long as nothing has ended it (`WatchPhase`), and the
  upstream is subscribed while anyone watches (`LockInv`), so a change is on the wire, queued, with the listener or unread.

Only model-checked: the liveness properties (`CallsAnswered`, `LostConnectionLeaves`, and the liveness halves of
the four refinements), which are outside the reach of the prover, as is everything that rests on `ENABLED`
(`NobodyStuck`); and the type invariant of a composite run (`FlowsTypesOK`: each part is a theorem of its module). `OneProcess`
and `PassiveAdmission` of `flows` are the theorems `OneProcessEach`, `AdmittedByRow` and `OnlineTrue` for the
two instances of the pool that run there. No module uses a recursive operator.

Where proving changed a model: two cases of `VideoPhase` overlapped and left the value open, and what an adapter does after
a signal was a disjunction whose cases were not exclusive. Both are now stated as the code decides them.

## What the checks found

Six runs end in a violation, each of something the repository says of itself.

1. **A disabled service runs** (`pool_disable`). `service/service.go:380` promises that disabling a service
   stops it. A request reads the row, waits for the connect lock while the service is disabled and
   removed from the pool, and then dials with the row it has; nothing looks at the status again.
   The comment at `session_pool.go:998` (the next call uses the new configuration) fails in the same way
   for a changed configuration.
2. **An active task is deleted** (`image_delete`). `imagegentask/history.go:20`: "active image tasks cannot be
   deleted". `Delete` takes a lease of 30 s which nothing renews; if the storage call outlasts it,
   `RetrySave`, which makes a task active without taking the lease over, comes in between.
3. **A quota change is undone** (`billing_save`). `docs/COMMERCIALIZATION.md:977` asks that the
   quota be conserved. `ChangePassword`, `UpdateProfile` and the administrator's `UpdateUser` save every
   column of a row read earlier, the balance included.
4. **A row without its blob** (`blob_erase`). `service/upload_cleanup.go:54`: the blob is deleted only once the last row that
   refers to it is gone. Deleting the row, counting and erasing are three steps, and a save comes in between.
5. **The row keeps old tools** (`catalog_tools`). `docs/API.md:528`: the caches follow `tools/list_changed`. A change that the
   adapter refreshes after its tools were copied and before its handler is set is told to nobody.
6. **A disconnected endpoint is open** (`cloud_stop`). `docs/API.md:966`: the connection is closed when `Disconnect`
   returns. The goroutine of a replaced client deletes the map entry of its successor (`cloud/manager.go:165`, 178), which
   the next `Disconnect` does not find. In the trace the first handshake had failed when the second client was started.

Other things the models made visible, where the code or a document says something weaker or nothing:

* `COMMERCIALIZATION.md:573` says that a retry after a crash between hold and upstream call is not charged again.
  The check (`model/mcp_call_log.go:59`) is called soft and only sees written log rows; the hold of
  the crashed call is not returned either, and no row records it (`Abandon` costs one hold in `MoneyAccounted`).
* A redeemed code becomes usable again when a status edit saves a row it had read before the redemption
  (`service/redemption.go:94`); `CodePaysOnce` counts these.
* `AdjustUserQuota` says that no negative quota is allowed (`service/admin.go:266`), yet subtracts
  without a guard from a balance read before.
* Two concurrent installs of one item make two references although `service/marketplace.go:1083` speaks of one per
  user; a stale whole-row save can switch a reference on again or bring a deleted one back (`strayOn`).
* A session overwrites the lists of a reference with those of its upstream (`session_pool.go:257`), although `tools_cache` of a
  reference is documented as a copy of the item's (`service/service.go:508`); `ReferencesFollowItem` notes these (`straySnap`).
* A load of prices whose second read fails keeps the item's price without its entry's (`billing/pricing.go:83`
  ignores the error), and other instances keep an old price until it expires.
* Disconnecting an endpoint whose client is still dialling does not stop the client (`Disconnect` closes what `Connect` has
  stored, `cloud/xiaozhi_client.go:109`), which connects and stays open; `DisconnectedMeansClosed` excepts these (`early`).
* A webhook renewal is answered as active although the worker of the subscription saw it expired and is on its way out: its
  deferred function (`events/webhook.go:566`) removes what was just renewed, which the comment at 544-547 prevents for
  `terminated` alone. `OneWorkerPerHook` excepts these subscriptions (`revived`).
* A request id of more than 47 characters never makes a retry free. Its row is stored with the id, a colon and 16 digits of a
  hash (`gateway_handler.go:1490`) cut to 64 bytes (462, 919, `resources_prompts.go:600`), and the check asks for all of it
  (`billing.go:77`), although `model/mcp_call_log.go:58` has it prevent that a client's retry is charged again.
  `RetryChargesBounded` is about the others.
* Audio that was received but cannot be used is a plain error (`audiogen/client.go:360`, 409, 445; 552 and 569 in streams; 642, 653 and
  656 in realtime sessions), not an `UncertainError`: the task is `failed`, and the user's `Retry` generates, and may pay for,
  another. `AudioImplementsPaid` counts these apart from results (`wasted`).
* A slow write to a presigned slot after its row was reaped, and a blob whose deletion failed, stay for ever (`adrift`).
* An audio retry that loses to another leaves its captured input in storage; a clean-up that read a row before a retry
  may leave a file.

## What is not modelled

* Time: leases, timeouts and idle cut-offs happen at any moment. The order of a deadline and an event is
  therefore always free, which is what the properties need.
* Data: messages, prompts, prices and images are identities or small numbers.
* In image tasks, the older synchronous path (`history.go` `Start`, `Finish`, `recoverInterrupted`), whose rows have
  no idempotency key and are never leased. In billing, the resolution of prices, calls that are free or
  exempt (they change nothing), the administrator's `add` and `set`, affiliate rewards, and whole-row saves of
  an API key (`service/apikey.go:188`). In the marketplace, virtual items, and the membership rows that
  `AddServices` may leave when a reference is deleted meanwhile. In the subscriptions, `OpenLegacyStream`, several
  upstreams in one stream, and items that a group has disabled. What else a module leaves out is said with it above and in its header.
* Accounts, verification codes and the set-up of the first user: rows and maps handled by one request each.
* The ranking of search results, transports, clients of model providers, the installer, storage back ends, controllers and the web
  front end: numeric ranking, I/O and formatting.

## Plan

1. **API keys and accounts**: the whole-row saves of an API key against holds (as an extension of `Billing`), the
   verification code that is checked and deleted in two steps, and the set-up race.
2. **Installer**: what it shares with the pool.
3. **Streams of a legacy session** (`OpenLegacyStream`) and several upstreams in one stream (as an extension of
   `Subscriptions`).
