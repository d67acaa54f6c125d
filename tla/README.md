# Verification of the Rayavriti NetMonitor backend

TLA+ specifications, TLC configurations and TLAPS proofs for the Go backend
under `src/backend`. Paths below are relative to `src/backend/internal` unless
they start with `src/` or `cmd/`.

## 1. The system

A server process polls network devices on a schedule, stores what it measures,
evaluates alert rules on each result, notifies people, and pushes events to
browsers. Around that it ages its data, captures packets, receives flow
records, discovers hosts, writes reports, keeps a location tree, incidents and
a public status page, and signs users in. Several processes may share one
PostgreSQL database; Redis is optional and adds caches, a poll lock, a metric
buffer, rate limits and pub/sub.

### Inventory

| Part | State | What is hard | What makes it correct |
|---|---|---|---|
| Poll dispatcher, scheduler, state tracker (`scheduler/poll_dispatcher.go`, `scheduler.go`, `device_state_tracker.go`) | heap and map of entries, one timer, a wakeup token, failures per device | entries looked up again after an unlock; the timer armed for an old due time; reconcile works on an old list | no device drops out, none is polled late, too often, or more often at once than it was added |
| Worker pool (`scheduler/worker_pool.go`) | three channels, gauges, two-stage stop | nested selects, fairness rounds | no job lost, duplicated or starved; Stop ends |
| Result pipeline (`scheduler/result_pipeline.go`) | channel, batch, run context | results out of order, polls and writes on a cancelled context | each result processed once, latest status wins, a cut-off poll takes nothing down |
| Poll lock (`cache/distributed_lock.go`) | a key with a token and an expiry | a poll longer than the lock, a late release, a crash | at most one poll per live lock; the lock comes free |
| Metric buffer (`cache/metric_buffer.go`) | Redis list, dead-letter list | Redis commands whose outcome is unknown, pop before insert, re-queue on a dead context, rows that can never be stored | what is lost or doubled had a failed call; what can be stored is stored |
| Alert engine (`engine/alert.go`) | `alert_rule_state`, `alerts` | several instances, an absence loop without the lock, a crash between two statements | one active alert, announced once; duration, cooldown, clearing honoured |
| Conditions, baselines (`engine/alert_conditions.go`, `baseline.go`) | cached baselines | a refresh beside an evaluation, too few samples | anomalies judged by a recent baseline; dry run agrees |
| Rule cache (`engine/rule_cache.go`) | rules, load time, generation | a reload racing an edit | an edit is never hidden by an older load |
| Redis caches (`cache/*_cache.go`, `cached_database.go`) | rows with a time to live | late fill after a deletion, lost deletions | staleness is bounded |
| Delivery (`engine/alert.go`, `notifier.go`) | queue of 256, workers | full queue, retries against a deadline, drain, alerts queued after Stop | an accepted alert is recorded; repeated only where Send failed |
| Channels, contacts (`handlers/notification_channels.go`, `engine/contacts.go`) | configurations with secrets; bindings, quiet hours | masked secrets in crossing forms; hours over midnight | no placeholder stored; reached exactly when awake |
| Escalation (`engine/escalation.go`) | running escalations | | never started as wired |
| Hub and pub/sub (`websocket/hub.go`, `cache/pubsub.go`) | clients, broadcast channel, subscription | slow clients, connects during Stop, reconnects | a screen is behind only by what was lost; connections torn down whole |
| Device scopes (`handlers/scope*.go`, `rbac/`, `server/ws_scope.go`) | user scopes, cached copies | the same filter in SQL, in Go and in the event stream | a scoped user sees and changes only its devices |
| Sessions, API keys, accounts (`handlers/auth.go`, `auth/`) | refresh tokens, keys, roles | two refreshes with one token, a role changed meanwhile | a family does not fork, a barred account gets nothing |
| Login and request limits (`auth/login_limiter.go`, `auth/middleware.go`, `server/middleware.go`, `cache/rate_limiter.go`) | sliding windows, token buckets | count and insert are separate commands; forgotten clients | limits hold up to the requests that run side by side |
| Flow ingest (`flowingest/`) | queue, batch, exporter table | closing the queue under senders, integers at their edges | flows are accounted for; figures do not wrap |
| Topology, maintenance (`campus/topology.go`, `maintenance.go`, `engine/suppression.go`) | parents, windows | parents change during a walk, cycles, midnight | suppression is explained; walks end |
| Locations (`campus/location.go`) | a tree of rows | check and write apart | a forest, counted the same both ways |
| Packet capture (`handlers/capture.go`) | running flag, sessions, tcpdump | Stop, limits and the process ending together | the quota is kept; a capture ends |
| Discovery (`discovery/`) | jobs, results | failing statements, crashes | counts match results; a scan settles |
| Remote instances, configuration sync (`remote/`, `monitoring/cfgsync.go`) | registry, service mode, last answer | restarts, garbled answers, failed writes, crossing updates | grace period honoured; a key goes with its URL |
| Reports (`reports/`) | schedules, last run | a run beside its own due test, restarts, schedules that cannot be read | every fire time served, each run explained |
| Retention, rollups (`retention/`, `database/migrations.go`, `cmd/server/main.go`) | raw, hourly, daily data; sweeps | refresh of a bucket whose source is gone | what is due goes, no rollup goes with it |
| Incidents (`handlers/incident.go`) | row, timeline | read, decide, write, append are apart | closed was resolved; the timeline tells status and assignee |
| Alert desk (`handlers/operator.go`, `alerts.go`) | alerts, notes | look and write apart, crossing publications | answers complete; screens end up with the rows |
| Status page, generic resources (`handlers/status_page.go`, `database/resources.go`) | services, incidents, pages | a page from several queries, each of which may fail; rows that come and go while paging | truthful; nothing that stays is missed or repeated |
| Backups (`backup/`) | rows, files | two dumps in a second, restore of the table that lists them, crashes | what is called completed is whole |
| CSV import (`importer/`) | preview, transaction | devices change between preview and confirmation | all or nothing; parents as named |
| Health scores (`engine/health_scorer.go`) | score history | weights and bands | labels follow; an outage does not help |
| Start (`database/postgres.go`, `migrations.go`, `timescale.go`, `seed.go`) | schema, version, policies, seeds | two servers at once, a start that dies | the schema matches its record; starts settle |
| Shutdown (`cmd/server/main.go`) | the parts still running | order of Stops that may give up, a failing listener | producers stop before consumers; the process exits |
| Collectors, port scans, display handlers, logging, web client | | I/O | not modelled (section 6) |

The path of one poll: the reconcile pass upserts the device; dispatchDue marks
its entry in flight and enqueues a job; a worker takes the poll lock, polls,
and calls handlePollResult, which clears the mark (Done), records health and
status, and submits the result; the pipeline batches it, writes metric (to the
metric buffer when Redis is there) and device status, broadcasts to the hub,
and calls ProcessMetric, which takes the rules from the rule cache, evaluates
conditions, asks for suppression, and queues a notification.

## 2. Modules

`PollScheduler`, `PollTimer`, `WorkerPool`, `JobPool`, `ResultPipeline` and
`AlertEngine` are specifications of their own. The other component modules are
written the same way, with their names prefixed by the component so that
several of them can be extended together.

| Module | Models | Actions |
|---|---|---|
| `PollScheduler` | dispatcher, reconcile pass, result handling, tracker; no time | the steps of `reconcile`, `DispatchDue`, `Enqueue`/`RetrySoon`, `TakeJob`, the steps of `handlePollResult` |
| `PollTimer` | the dispatcher with its clock: due times, the shared timer, the wakeup token, backoff | `DispatchDue`, `RescheduleTimer`, `RecordSuccess`/`Failure`, `AddDevice`, `ChangeInterval`, `RemoveDevice`, `Tick` |
| `JobPool` | what the pool promises: accept, take once, deliver once | three actions on two sets |
| `WorkerPool` | channels, gauges, the worker loop select by select, Stop | `EnqueueCount`/`Send`/`Drop`, `BeginRound`, `Receive`, `FallThrough`, `Uncount`, `Execute`, `Deliver`, the stages of Stop |
| `ResultPipeline` | the poll under the pool's context, Submit, run, processBatch, flush, `Scheduler.Stop` | collector and test of the context apart; the three writes of a batch are three actions, each of which may fail or find its context cancelled |
| `AlertEngine` | one rule on one device, on several instances | one action per database call of `evaluateRule`, `fireAlert`, `handleConditionCleared` and the absence check; operators, pruning, crashes |
| `RedisState` | two specifications: the lock of a poll (`PollLockSpec`: TryLock, the poll, release, expiry); the buffer of the metrics (`MetricBufferSpec`: list, drain, re-queue, dead letters, Stop) | one action per Redis or database call, each of which may fail, and a Redis command also fail after it took effect or take effect twice; crashes, of which the list survives |
| `Caches` | two specifications: cached reads and the writes that delete keys (`CacheAsideSpec`); the rule cache with its generation, edits here and elsewhere (`RuleCacheSpec`) | get, fetch, set, write, delete of the one key that is followed; the two queries of a load, storing, invalidation |
| `Conditions` | condition kinds, `all`/`any`, dry run with its own logic, baselines | evaluation of a metric, the dry run, the refresh loop |
| `Delivery` | queue, workers, attempts, history, Stop | one per attempt or record |
| `Secrets` | two specifications: keys of remote instances beside their URLs (`RemoteStoreSpec`); masked secrets of channel forms (`ChannelFormsSpec`) | read and write of an update apart |
| `Contacts` | who is reached when | one resolution |
| `Hub` | clients, both pumps, snapshot, subscription | one per channel operation |
| `DeviceAccess` | lists, guard, updates, moves, events of a scoped user | one per statement of a request |
| `Sessions` | login, refresh, replay, accounts, API keys | one per statement of a request |
| `LoginLimiter` | sliding windows in memory and in Redis; token buckets of requests (a second specification) | one per critical section or Redis command |
| `FlowIngest`, `FlowRecords` | readers, queue, writer, exporter table, Stop; scaling and dating | one per channel operation; one datagram |
| `Topology` | suppression walk, windows | one per row read, which may fail; parents and states change |
| `Locations` | create, update, move, delete | one per statement |
| `Capture` | Start, run, limits, Stop, Shutdown, tcpdump | one per critical section or statement |
| `Discovery` | jobs, probes, results, review | one per statement or probe |
| `FleetSync` | service mode, its answer as sent and as decoded, grace period | one per request or statement, which may fail |
| `Reports` | due test over schedules of four kinds, runner, runs by hand | due query, file, row and time stamp apart |
| `Retention` | rollups with refresh and retention jobs; the sweeps (two specifications) | one per job or batch |
| `Incidents`, `AlertDesk`, `StatusPage` | as in the inventory | one per statement |
| `Backups` | dump, fail, delete, restore | pg_dump and psql as external processes |
| `CsvImport` | preview (each line looked up, or not for an error), the lines chosen, transaction, others' edits | one per line inserted |
| `HealthScore` | score, label, trend | a poll, an hour, a computation |
| `Server` | two specifications: starts on one database (`StartupSpec`); the shutdown order (`LifecycleSpec`) | one per statement; one per Stop, which may give up; poll, result, metric and alert apart |
| `PollSchedulerProofs`, `WorkerPoolProofs`, `AlertEngineProofs`, `CachesProofs`, `AccessProofs`, `DeskProofs`, `BackupsProofs`, `CollectProofs` | the theorems of section 4 (`CachesProofs`: `Caches`, `DeviceAccess`, `FlowRecords` and `CsvImport`; `AccessProofs`: `Sessions`, `Secrets` and `LoginLimiter`; `DeskProofs`: `AlertDesk`, `Incidents`, `Conditions`, `Contacts`, `StatusPage` and `Delivery`; `BackupsProofs`: `Backups` and `Retention`; `CollectProofs`: `ResultPipeline`, the lock of `RedisState`, the grace period of `FleetSync` and `Capture`) | |
| `MCAccess`, `MCData`, `MCDesk`, `MCCollect`, `MCServe`, `MCStartStop` | suites: several components in one run | |

How they fit together. `PollScheduler` uses the pool as `JobPool` describes it,
and `WorkerPool` is shown to implement `JobPool`. `ResultPipeline` starts where
`PollScheduler` ends (Submit), `AlertEngine` where `ResultPipeline` ends
(ProcessMetric). In `AlertEngine` a condition is met or not, suppression is a
flag and a notification ends in the queue: `Conditions`, `Topology` and
`Delivery` are those three. `Server` takes each part's Stop as one step that
waits for what the part waits for or gives up where the part does; the parts'
modules model the Stop itself.

`PollScheduler`, `PollTimer`, `WorkerPool`, `ResultPipeline` and `AlertEngine`
are checked as they are, with small values at the end of the module where a
constant is a function (`TightQueues`, `MixedPriorities`, `TwoDevices`).

Suites. A suite extends its components, and its variable `component` says which
one moves in a behaviour; the others stay in one of their initial states. So a
suite checks each component by itself, over all of its behaviours; it does not
check interactions of two of them, which do not share state.

What is abstracted: device data and metric values, wire formats, wording,
logging, counters that only feed the metrics page, and library code (password
hashing, token signing, decoding of flow packets, pg_dump, tcpdump, ping).
Deliberately coarse: in `PollScheduler` any entry may be due at any time; in
`PollTimer` the dispatcher goroutine is prompt and a second result of a device
waits until the first is recorded; in `AlertEngine` what the code computes
between two database calls happens with the earlier call, and alert ids come
from a small set and are reused once nothing refers to them; in `Conditions`
and `HealthScore` integers stand for readings.

Definitions commented "Seeded fault" are faulty variants of the definition next
to them (a dropped guard, a missing reset, a wrong lane). Nothing uses them; put
in place of the original each makes TLC report the property listed for it in
`PROJECT.json`.

## 3. Runs

Times are with two workers on a small machine. A property with "Safe" or
"Correct" in its name is a conjunction; its parts are named here. The bounds of
a suite are the constants of its `.cfg`; the paragraph below the table says why
they are enough.

| Run | Bounds | Shows |
|---|---|---|
| `poll_core` | 1 device, 2 jobs of it, 1 worker, 1 place per lane, 2 edits, unreachable after 2 failures | `InFlightHasJob`: a mark never outlives its job; `PollsBoundedByAdds`; `PollingLives`: polled again for ever (`PolledAgain`), back from unreachable (`Recovers`), quiet once disabled (`DisabledQuiesces`) |
| `poll_timer` | 2 devices, intervals 1 and 2, backoff after 1, 2, 3 failures (2.6M states) | `TimelyPolls`: nobody is polled late but after backoff, and then by at most seven intervals (`OnTime`); polls stay an interval apart (`SpacedPolls`) |
| `pool` | 4 jobs in 3 lanes, 2 workers, fairness every 2nd round | `ImplementsJobPool`; `PoolSafe`: `GaugeCoversQueue`, `StopLeavesNoJob`, `OneLateJob`; `PoolLives`: `NoStarvation`, `StopEnds` |
| `pipeline_safety` | 3 polls of 2 devices, 2 workers, channel 1, batch 2, 1 failing statement | `ResultsSafe`: `ProcessedOnce`, `NoFalseDown`, `BatchWriteIsLatest` |
| `alert_race` | 2 instances with absence loops, suppression, 1 failing call or crash, operators resolve | `AlertedOnce`: `OneActiveAlert`, `NotifiedOnce` |
| `access` | `MCAccess.cfg` | alert engine with absence checks, port scans, a crash and every operator action (`AlertedOnce`); `SessionsSafe`: `FamilyNotForked`, `SessionKept`, `BarredGetsNothing`, `NoRoleAboveTheHighest`; `LoginLimiterSafe`: `LoginsBounded`, `MemoryKeepsOthers`, `ForgettingGivesNothing`; `SecretsKept`: `KeyStaysWithItsUrl`, `PlaceholderNeverStored`, `LastTypedSecretStored`; `BackupsSafe`: `CompletedIsWhole`, `PartOnlyWhenShared` |
| `data` | `MCData.cfg` | `CachesFresh`: `StalenessBounded`, `StaleOnlyByLateFill`, `EvaluationSeesEdit`, `RulesNotTooOld`; `DeviceAccessCorrect`: `ListAgreesWithGuard`, `EventsInScope`, `ScopedWriteAllowed`, `ScopedMoveInside`; `FlowRecordsSafe`: `ScaledByOwnRate`, `FlowsWithinRetention`; `CsvImportSafe`: `WholeImports`, `LinkedToNamedParent`, `UnflaggedIsNew` |
| `desk` | `MCDesk.cfg` | `AlertDeskSafe`: `BulkAnswersForEach`, `ReopenedUnseen`, `ScreensAgree`; `IncidentsSafe`: `ClosedWasResolved`, `TimelineTellsStatus`; `ConditionsSafe`: `AnomalyFromRecentBaseline`, `UsualIsNoAnomaly`, `DryRunAgrees`; `StatusPageSafe`: `PageTruthful`, `PagesAgreeWhenWell`, `PagesCoverStableRows`; `LocationsCorrect`: `OneAtATimeKeepsForest`, `CountsAgree`, `DeleteKeepsAncestors`; `ContactsSafe`: `ReachedExactlyWhenAwake`; `HealthScoreCorrect`: `LabelsAreEarned`, `PercentileCorrect`, `OutageNeverHelps` |
| `collect` | `MCCollect.cfg` | `ResultsArrive`: `StatusNeverRegresses` (one worker), `EveryResultProcessed`, `StopEnds`; `PollLockCorrect`: `OnePollPerLock`, `LockComesFree`; `MetricBufferCorrect`: `InOnePlace`, `LossNeedsFault`, `AllPersisted`; `FleetSyncCorrect`: `GraceHonoured`, `FleetSettles`; `TopologyCorrect`: `SuppressionExplained`, `FiresOnlyWithoutDownAncestor`, `RecursEachDay`, `CheckEnds`; `DiscoveryCorrect`: `CountsMatchResults`, `ScanSettles` |
| `serve` | `MCServe.cfg` | `RuleHonoured`: `PendingFiresSustained`, `ClearedLeavesNoActive`, `CooldownRespected`, `EventuallyFires`; `HubCorrect`: `BehindOnlyByLoss`, `EventsInOrder`, `ConnectionTornDown`, `SubscriptionResumes`; `CaptureCorrect`: `QuotaKept`, `EveryCaptureEnds`; `ReportsCorrect`: `RunsExplained`, `EveryFireServed`; `RetentionCorrect`: `SweepClears`, `HourlyRollupsKept`, `DailyRollupsKept`, `OldRowsGo` |
| `start_stop` | `MCStartStop.cfg` | `FlowIngestCorrect`: `NoSendOnClosedQueue`, `FlowsAccounted`, `RecentExporterKept`, `StopDrains`; `DeliveryCorrect`: `RepeatedOnlyUnanswered`, `EveryAlertRecorded`, `StopReturns`; `StartupCorrect`: `SchemaMatchesRecord`, `ServingIsReady`, `StartsSettle`; `LifecycleCorrect`: `NothingFedAfterStop`, `StopHandsOver`, `ProcessExits` |
| `pipeline_dead_context` | 3 polls, 2 workers | violated: section 5 |

Each suite run takes two to four minutes, the others up to two.

Why the bounds are enough. A second entry of the same device is the smallest
case of a re-add, and two edits (disable, enable) reach it; one place per lane
makes a rejection happen. Two devices are the smallest case in which one
entry's timer serves another. Two workers and four jobs contain a race for a
job, a full lane and a lane to starve. A channel of one place and a batch of two
make Submit wait, a batch fill up, and a result arrive during a flush. Two alert
ids are one alert and its successor. In the suites two (sometimes three)
requests side by side are the smallest race, a third where a property compares
two that are over with one that is not (incidents, channel forms, instances of
the poll lock). Queues and caches have one or two places, so that they are full,
and the next item finds them so. Times to live, windows, durations and grace
periods are one or two ticks beside a clock that goes at least one further, so
that there is a before, an at and an after. Failures, lost calls and crashes are
bounded by one or two of each kind: every place for it is tried, but seldom two
of them together. An hour of health scores begins with no poll and three to
come, or with eighteen and two to come, so that the percentile of twenty values and its step are reached.
A rule's run (`RuleHonoured`) has one instance with a port scan, one failing
statement and one crash; two instances are in `alert_race`, the absence loop there
and in `access`. The first schedule of a report is sound, the second of any kind. The largest integer is 15 in `FlowRecords`, with values at zero, at the limit
and next to both. Three hosts, locations or nodes contain every shape
of a chain or cycle a walk tells apart (a node, its parent, and a third above or
beside).

Symmetry is used in `access`, `data` and `desk` over the two requests `q1`,
`q2`, in `data` also over the two hosts that may be imported, and in `alert_race` over the instances and over the alert ids; no
definition tells them apart, and these runs check invariants and action
properties only, no liveness. Account ids of `Sessions` are never given out
again, as in the database; an address in `DeviceAccess` is inside or outside the
scoped network, and a host name counts as outside, as it does in the code.

`CHECK_DEADLOCK FALSE` in the suites: their components have a bounded number of
requests, edits or ticks and rest when those are used up. The other runs check
deadlock.

### Fairness

* `PollScheduler`: the reconcile ticker fires; workers take queued jobs and end
  what they hold (every poll has a deadline). Strong fairness of dispatch: each
  pass takes every due entry of the heap. Strong fairness of a poll that is not
  skipped: a poll tried again and again is not skipped every time by the lock
  of another instance.
* `WorkerPool`: goroutines run; Go's select chooses uniformly among ready cases,
  so the blocking select does not pass over a lane for ever. Nothing is assumed
  of the fast paths, whose starvation the fairness round must prevent.
* `ResultPipeline`: the ticker and the cancelled context are not passed over for
  ever by the select; polls and Submit end by their deadlines. Stop need not be
  called.
* `AlertEngine`: the device keeps being polled and evaluated, time passes, and
  retention prunes resolved alerts (which frees the bounded ids).
* `RedisState`: time passes, a collector returns by its deadline, a holder of the
  lock that lives releases it; the flush goroutine of the buffer runs and its ticker fires;
  Stop, crashes and outages need not happen. `FleetSync`: both loops run; a link
  that keeps failing is possible, and `FleetSettles` speaks of a link that stays
  up. `Topology`: a check goes on. `Discovery`: the goroutine of a scan runs.
* `Hub`: the hub, both pumps and the subscriber run, and pings find a dead peer.
  `Capture`: the goroutines run, the duration limit expires, and a killed
  tcpdump ends; nothing makes tcpdump end by itself. The steps that a request and
  its run take one after the other are one condition (`GoesOn`), as are those of
  `Lifecycle`: each step is there finitely often. `Reports`: the runner and
  the clock go on. `RetentionSweep`: the daily ticker fires and a sweep ends.
  The rollup jobs belong to the database; nothing is assumed of them, and their
  properties are safety.
* `FlowIngest`: readers, writer and the shutdown goroutine run. `Delivery`: the
  workers run; an attempt ends, by its own or the alert's deadline. `Startup`: a
  start that lives takes its steps; the advisory lock is tried again and again
  and is not always held by another. `Lifecycle`: polls, their
  results and announcements go on, and so do the deadline and the Stops; requests
  need not end.

In a suite each fairness condition is that of the component's own specification,
restricted to behaviours in which that component moves.

## 4. Proofs

Eight modules hold theorems that TLAPS checks for every value of the constants.
Each safety theorem follows one pattern: an inductive invariant (the larger ones
checked by TLC on a small instance before they were proved); a lemma that it implies the property,
one that the initial states satisfy it, and one for each action. What several
actions leave alone is stated once (for example as "what no step undoes" in
`BackupsProofs`), so an action's proof is about what that action disturbs.

| Module | Theorems | What the invariant adds to the property |
|---|---|---|
| `PollSchedulerProofs` | `TypeCorrect`, `InFlightAlwaysHasJob`, `PollsNeverOutnumberAdds` | the generation in each job tells the mark of a new entry from jobs of the one it replaced; outstanding jobs of a device are a finite set, without which cardinalities say nothing (`Bounded`) |
| `WorkerPoolProofs` | `PoolSafeAlways`, `PoolImplementsJobPool` | a gauge is exactly its queue, the Enqueue that has counted its job, and the workers that have not uncounted theirs (`GaugeExact`); a worker with a late job is past the selects and looks at stop before the next (`LateOnce`); every job is in one place (`JobsOnce`), on which each step of the refinement rests |
| `AlertEngineProofs` | `AlertedOnceAlways` | an alert that somebody is about to announce has not been announced, and nobody else is about to; an id is fresh when it is given out |
| `CachesProofs` | `CachesFreshAlways`, `DeviceAccessAlways`, `FlowRecordsSafeAlways`, `CsvImportSafeAlways` | Redis (`AsideInv`): the newest version is the row's, and what a reader carries or an entry holds was superseded no longer ago than it has been carried and held. Rule cache (`RuleInv`): what is kept, or may still be kept because the generation has not moved, is at least as new as every edit acknowledged here. `DeviceInv`: what a request carries was the device's, and past its guard a row inside the scopes, since the last tick or as long as the copy is old (`EditOK`); so are the copy and the remembered location (`RowsKnown`). That lists and guard agree is `ClauseIsGuard`. Flow records: what is stored was made from a datagram; that flattening any number of sets gives rates is proved by induction (`FlatOverS`), that scale multiplies exactly or saturates is `ScaleExact`. `ImportInv`: a staged device belongs to a row of the preview and its parent cannot go (`StagedFor`), no identifier is used twice, so a resolved parent is gone or still has the host its line names (`PreviewOf`) |
| `AccessProofs` | `SessionsSafeAlways`, `SecretsKeptAlways`, `LoginLimiterSafeAlways` | `SessionInv`: a family has one live token or one request holding it, the newest token is kept unless the account is upset, and which requests can miss theirs. `RemoteInv`, `ChannelInv`: without an overlap at most one actor is between two steps, and what it read is still stored. `LimiterInv`: every login let through in the window, and every one under way that has added its attempt, is a recorded attempt of its own (`Shown`), so a count below the limit bounds them, with those that counted at the same time (`Bounded`); what counts against a user whom only one address has tried, wrongly, counts against the pair (`PairsHold`). `RequestInv`: a bucket never holds more than one that is not forgotten would, and an idle one has had the time to fill |
| `DeskProofs` | `AlertDeskSafeAlways`, `IncidentsSafeAlways`, `ConditionsSafeAlways`, `ContactsSafeAlways`, `StatusPageSafeAlways`, `RepeatedOnlyUnansweredAlways` | `DeskInv`: a bulk request has dealt with what it was asked but for what it still holds (`TallyOK`); a row that differs from the screen has a request about to publish it, unless requests crossed or a re-read failed (`ShownOrPending`). `IncidentInv`: who is about to close saw the incident resolved (`ResolutionKept`); what a handler in sequence read is where the timeline stands (`ReadsHold`, `TimelineStands`). `ConditionsInv`: what a query found is at most RefreshTime older than its stamp (`BaselinesTimed`); that the usual is no anomaly is algebra (`UsualWithin`), and that the dry run's own logic agrees is `VerdictSays`. Contacts: inQuietHours compares positions on the way around the clock. `StatusPageInv`: while nothing changes a page is what the tables say, or what the handler goes on with where a query failed (`PageOK`); a row that stays is on one page and behind the cursor, or on none and ahead of it. That the last page leaves nothing out rests on a lemma about the rows after a cursor (`FirstsMeans`). `DeliveryInv`: an alert is at one place, the queue or a worker (`AlertInOnePlace`), and its worker has sent nothing to the channels after the one it tries, to that one only without an answer (`SentBehind`) |
| `BackupsProofs` | `BackupsSafeAlways`, `RollupsKeptAlways`, `SweepClearsAlways` | a database, the present one, one in a whole file or one being dumped, says completed only of a backup whose dump is over and whose file is whole, or which another shares the name or the identifier with (`GoodDb`, `Finished`). It must hold of old databases as well, with the files of now, because a restore puts one in the place of the present one. `RollupsInv`: a day that a refresh still looks at has at least as much in its source as in its rollup (`SourcesKept`), so no refresh takes anything away. `SweepInv`: what was due at a table's turn is pruned or can still be (`DueKept`); the last batch takes the rest |
| `CollectProofs` | `ResultsSafeAlways`, `OnePollPerLockAlways`, `GraceHonouredAlways`, `QuotaKeptAlways` | `PipelineInv`: a submitted result is at one position of the channel or of the batch, or has been processed (`ApartOK`, `SentOK`); once the context of run is cancelled nothing is submitted, and from the last flush on the channel is empty (`StopOK`, `WriterOK`); a poll ends once, so the results of a device have a latest (`LatestExists`), and a device that answers is down only for a poll that was cut off and has not looked at its context yet (`EndedOnce`). `PollLockInv`: a poll and its lock age together. `FleetInv`: the manager's answer decodes to active (`ModeNotFound`), and what the instance has stamped is the last answer, except between an answer and its stamp or after a write that failed (`GraceKept`). `CaptureInv`: two captures under way at once are both marked (`SharedByAll`); one alone has counted what it keeps, and its current packet has room or will not be kept (`HasRoom`) |

Assumptions on the constants are those each module names: positive sizes and
times to live, bounds that are natural numbers, sets that are disjoint (no alert
id among the ids, local and remote editors, assignees and incident statuses),
types of conditions among the five there are, finite sets of dumps, of workers, of logins, of devices and of a table's rows where
they are counted, an hourly refresh window shorter than the least raw retention,
a limit of a user from one address below that of a user. None
bounds the number of actors from above. `CachesFresh`, `SecretsKept` and
`LoginLimiterSafe` are about two specifications each and their theorems assume
both.

Only model-checked:

* Liveness, under any fairness: `PollingLives`, `PoolLives`, `ResultsArrive` and
  the eventual parts of the suites' properties. Fairness and ENABLED are outside
  what the prover handles.
* `InOnePlace` of `RedisState` speaks of a sequence filtered by SelectSeq, of
  which the provers know nothing; `LocationsCorrect` and `TopologyCorrect` speak of
  paths of any length, `HealthScoreCorrect` of percentiles of a sorted sequence.
* Safety parts of properties that also have liveness parts: section 7. Those of
  `PollLockCorrect`, `DeliveryCorrect`, `FleetSyncCorrect`, `CaptureCorrect` and
  `RetentionCorrect` are proved (`OnePollPerLockAlways`,
  `RepeatedOnlyUnansweredAlways`, `GraceHonouredAlways`, `QuotaKeptAlways`,
  `RollupsKeptAlways` and `SweepClearsAlways`), all but what is said of time to come.
* `StatusNeverRegresses` holds with one worker only; it is checked there.

## 5. Disagreements between the code and its documentation

One has a run that TLC ends with a counterexample, `pipeline_dead_context`: a
batch that fills up, or is being written, when the run context is cancelled is
written on that context and lost (`scheduler/result_pipeline.go:105`, against
the comment at line 113).

The others were met while modelling; the modules contain the behaviour, and the
properties are stated so that they hold with it.

* Scheduler. A device removed and added again during a poll is polled a second
  time beside it (`poll_dispatcher.go:172`, against `src/CHANGELOG.md:104`). Done
  precedes RecordStatus (`scheduler.go:377`), so a poll dispatched in between
  carries an old previous status although `poll_dispatcher.go:30` calls it the
  most recent. A poll that ends after its device was removed creates the
  tracker's record again, which M18 (`scheduler.go:229`) meant to prevent. With
  two workers an older result submitted late can overwrite a newer status.
* Alert engine. A resolved rule fires again on the first met evaluation after
  its cooldown, whatever the duration (`alert.go:404`). After a crash between
  CreateAlert and the upsert of the rule state, a condition that clears leaves an
  active alert that auto-resolve never finds (`alert.go:420`). sustainedDuration
  starts from the cooldown (`alert.go:361`). The absence loop ignores the cooldown
  (`alert.go:210-278`). A state that could not be read or stored leaves an old
  pending row behind, from which a rule can fire too early.
* Caches. A rule created or updated whose read-back fails after the commit does
  not invalidate the rule cache (`rule_cache.go:11` says every edit does). A
  late fill puts an old alert state back after its deletion
  (`alert_state_cache.go:41-45`). GetDevicesFiltered on the cached list ignores
  the location and the sort order (`cached_database.go:158-176`).
* Metric buffer. Stop can lose rows that were re-queued
  (`metric_buffer.go:195-196`). A push, a pop or an insert that took effect although
  it failed stores a metric twice or loses it (`result_pipeline.go:249`,
  `metric_buffer.go:109`).
* Login limits. With Redis one source can lock a user out for the others
  (`login_limiter.go:17-18`), and attempts that succeed count too (22-24).
* Capture. Two captures can run at once (`capture.go:92-95`); the duration limit
  leaves the flag set and the row "running" (461-465); Stop accepts any id; the
  last flush under an ended context stores nothing.
* Discovery. Every approval fails, because it selects a column the table does
  not have (`database/migrations.go:615-640`).
* Topology. A read of the walk or of the windows that fails suppresses nothing
  (`topology.go:207-208`, `suppression.go:62-66`). Dependency cycles make the dependency and root-cause queries loop,
  and a cycle that is down as a whole hides its outage; overnight recurring
  windows end at midnight; recurrence_rule and timezone are not read.
* Locations. Two moves side by side make a cycle (`location.go:386`), Update
  writes a parent unchecked, and Move of a missing location reports success.
* Incidents. The SLA check is given the status as the severity
  (`incident.go:188`), so a resolution never marks a breach; a late
  acknowledgement can overwrite a closed incident; PUT sets any status, and an
  added timeline entry may claim any type.
* Alert desk. An alert whose re-read fails after the write is not published
  (`operator.go:224-228`), and one whose look fails is answered not_found. The
  single-alert acknowledgement, and a bulk one whose look is out
  of date, re-open a resolved alert; Update publishes nothing.
* Status page. The HTML page always says operational; the first service that is
  not operational decides the overall status. A page with a failed query shows the
  services as operational and no incidents (`status_page.go:75`, 117-119).
* Backups. The checksum is never verified at a restore (`src/README.md:37`,
  `src/CHANGELOG.md:515`); a dump holds its own row as "running"; nothing of type
  "scheduled" is ever created, so pruning deletes nothing.
* Delivery. One deadline of 15 s covers all channels of an alert, which the
  comment calls isolated. An alert queued after the workers have returned stays
  in the queue (`alert.go:46-47`); one of a full queue or a failed history write
  leaves no record (`alert.go:591`, 740); a failed QUIT after an accepted mail
  makes the retry send it again (`notifier.go:210-213`).
* Contacts and escalation. A contact without an address of the preferred kind is
  reached by another, still labelled as the preferred one; escalation is
  disabled as wired (`handlers/contact.go:35`).
* Fleet. The mode an administrator sets never reaches the instance: the manager
  answers `{"success":true,"data":{"service_mode":...}}`
  (`handlers/sync_handler.go:32`, `httputil/response.go:43-52`) and the instance
  looks for `service_mode` at the top level and takes "active" when it is missing
  (`cfgsync.go:98-106`); `FleetSync` has it so, and `FleetSettles` says what is left.
  The error of the stamp is ignored (`cfgsync.go:107`). A remote in maintenance answers only /health, so its devices look gone
  and its health 100; a garbled answer skips the grace check; two crossing
  updates can pair a key with another URL (`registry.go:170-171`).
* Conditions. The dry run lacks anomalies (`handlers/alert_rules.go:157`) and judges
  absence by the age of a stored metric, which the evaluation saw fresh; a rule
  of type "all" without conditions fires on every metric.
* Health scores. A failed poll stores the time until it failed as its response
  time (`result_pipeline.go:234-237`), so from twenty polls on an outage of quick
  failures can raise the latency score. Alerts of the whole network lower every device's score; a device
  that is down for the whole hour is labelled "watch".
* Reports. One enabled schedule without a scope_value makes the scan fail and
  stops all of them (`scheduler.go:82-86`, 132-151); an expression without a next
  time is due at every check (171-172). Two reports of one second share a file; a fire time during a
  generation is skipped.
* Retention. Daily rollups are kept for ever (`src/README.md:301`) only when the
  hourly retention is at least the daily refresh window.
* Start and shutdown. Seeds of two starts duplicate devices and rules, or a crash
  leaves fewer defaults (`seed.go:48`); a listener error skips the Stops; detached
  scans and dumps outlive the pool they use. The alert engine's drain gives up after
  10 s and the buffer's at a failure or after 50 batches, the pipeline can lose a
  batch (above), and each Stop returns all the same.
* Sessions. A logout that races a refresh looks like a replay; Rotate ignores the
  error of storing the new token.

## 6. Not modelled

* Collectors and port scans: network I/O without state between polls. What a
  collector can return (a status, an operational error, a poll cut off) is in
  `PollScheduler` and `ResultPipeline`.
* Escalation: its engine is built without a configuration, so no run starts.
* Display handlers and single statements of the database layer: a read that is
  only shown, or one write; the statements other parts rely on are in their
  modules. The Redis request limiters call RateLimit, which `LoginLimiter` has.
* Discovery probes (vendor, service and operating system guesses), report
  contents, the wire formats of senders and flow packets: data without control.
* Anomaly reports for the dashboard, network averages: floating point.
* Logging, metrics, self-monitoring: nothing depends on them, and Recorder,
  SelfMonitor and AsyncLogSink are never started. AcquireLock, SessionStore,
  CleanupExpiredRefreshTokens, Hub.SendToClient, ImportFromSQLite, Pause and
  Resume have no caller in the program.
* Web client and simulator: no state the backend depends on.

Two hazards of `PROJECT.json` have no property: the order of Done and
RecordStatus (the code does not keep it, section 5), and an alert that finds the
notification queue full (it is announced to nobody by design; `Delivery` shows
what happens to the accepted ones).

## 7. Plan

Next are proofs, in this order:

1. `Hub`: `EventsInOrder`, from: the events a client has shown, has in its queue,
   and that are on their way to it, in this order, are increasing and none is
   newer than the version published.
2. `Reports`: `RunsExplained`; `Discovery`: `CountsMatchResults`; the invariants
   among the properties of `Server` (`SchemaMatchesRecord`, `ServingIsReady`,
   `NothingFedAfterStop`, `StopHandsOver`).
3. `RedisState`: `InOnePlace`, after lemmas about what SelectSeq keeps of a
   sequence, or with the flush written as `PruneAttempts` of `LoginLimiter` is.

After that: composing `CacheAsideSpec` with `AlertEngine` (how old a rule state
an evaluation may see and whether `NotifiedOnce` survives it), and two failures
in one behaviour where the code retries (`RedisState`, `Discovery`).
