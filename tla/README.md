# A verification project for osquery

TLA+ models of the parts of osquery that keep state across threads, processes and
restarts, model-checked with TLC on small instances, and theorems about them that
TLAPS proves for every value of the constants. `PROJECT.json` lists the components,
the runs, the map from definitions to source lines, the hazards and the theorems.

Contents: 1 the system, 2 modules, 3 runs, 4 fairness, 5 proofs, 6 behaviours a
reader of the code should know, 7 what is not modelled, 8 plan.

## 1. The system

osqueryd is two processes. The *watcher* starts a *worker*, inspects it and replaces
it. In the worker a dispatcher runs services on threads of their own: the scheduler,
the distributed runner, the configuration refresher, log forwarders, the carver,
extension watchers; publishers of events have threads of a factory. They share one
database (RocksDB, keys in domains) that outlives the processes; most of what must
survive a crash, and most of what can go wrong after one, is there. Extensions are
processes of their own that register tables and plugins with the worker.

| Component | State it keeps | Operations | Talks to |
|---|---|---|---|
| Scheduled queries: `query.cpp`, `scheduler.cpp` | rows, epoch and counter of each query in the database | `launchQuery`, `addNewResults`, `addNewEvents`, `Config::purge` | logger, database |
| Distributed queries: `distributed.cpp` | requests and running marks in the database, results in memory | `pullUpdates`, `acceptWork`, `runQueries`, `flushCompleted`, cleanup | remote server, database |
| Event buffer: `eventsubscriberplugin.cpp` | rows in the database, an index in memory, two pointers per query in the database | `addBatch`, the two evictions, `generateRows`, expiry | publishers' threads, scheduler |
| Event publishers: `eventfactory.cpp` | publishers, the flags `ending_` and `started_` of each, threads | `delay`, `run`, `deregisterEventPublisher`, `end` | main thread, subscribers |
| Buffered log forwarder: `buffered.cpp` | lines in the database, their count and two backoffs in memory | `logString`, `logStatus`, `check`, `purge` | every thread that logs, remote server |
| Schedule denylist: `config.cpp` | `executing_query`, `failed_queries` in the database, the denylist in memory | `Schedule()`, `scheduledQueries`, `recordQueryStart`, `recordQueryPerformance` | scheduler, watcher (signals, kills) |
| Watcher: `watcher.cpp`, `init.cpp` | the worker's pid, exit status and performance, restarts | `watch`, `stopChild`, `createWorker`, `stop`, shutdown with its alarm | worker process, dispatcher |
| Dispatcher: `dispatcher.cpp` | services, threads, `stopping_` | `addService`, `removeService`, `stopServices`, `joinServices` | all services |
| Configuration: `config.cpp`, `packs.cpp` | sources, hashes, packs, a backup in the database | `refresh`, `update`, `backupConfig`, `restoreConfigBackup`, `purge` | config plugin, extensions, scheduler |
| Logger core: `logger.cpp` | status lines in memory, the relay's future | `send`, `relayStatusLogs`, `waitLogRelay` | glog, logger plugins, database |
| Scheduler loop: `scheduler.cpp` | the step's number | queries, `maybeReloadSchedule`, `maybeFlushLogs`, `maybeScheduleCarves` | logger, database, carver |
| Database: `database.cpp` | the plugin, the lock of a reset | get, put, delete, scan, `resetDatabase` | everything |
| Carver: `carver.cpp` | carves with a status in the database, a pending flag, `running_` | `carvePaths`, the runner, the upload | tables, remote server |
| Extensions and registry: `interface.cpp`, `extensions.cpp`, `registry_*.cpp` | uuids, listed extensions, routes, external items, failures | registration, pings, removal | extension processes |
| Enrolment: `enroll.cpp`, `utility.h` | the node key under its mutex | `getNodeKey`, `clearNodeKey`, the tries of `TLSRequestHelper::go` | remote server |
| Everything else | see section 7 | | |

What is hard here: a crash or a kill between two writes to the database; a call to a
server whose answer is lost; threads that erase from memory first and from the database
later; state that a restart resets on one side only (an index that starts again at 0,
pointers that stay); a watchdog and a shutdown that race for one lock; a thread that
waits for a relay which waits for the lock the thread holds; services that are added
while the dispatcher stops; threads that outlive what they use; registrations that
are refused half way; denylists that must name the right query after a kill. The hazards
of `PROJECT.json` give each of them with its line.

What makes each component correct:

* scheduled queries: who replays the log has the saved rows, and a lost item shows;
* distributed queries: a stored request is answered, killed SQL is not run again;
* event buffer: what is buffered and unread is returned by the next run, once;
* forwarder and relay: a line stays until it is taken, and is taken in the end;
* denylist: a query that killed a worker stays out, and only such a query;
* watcher: a worker that is gone comes back, and a shutdown leaves none behind;
* extensions: one that runs keeps its routes, one that is gone loses them;
* configuration: what is hashed as seen is in force, and what is served becomes so;
* scheduler: its thread never waits for ever; carves are started, and uploaded once;
* enrolment: one thread enrolls at a time;
* shutdown: it ends, in every interleaving, and no thread outlives the database.

## 2. Modules

Names are the source's where TLA+ allows it. Rows, SQL texts, lines and names are
model values or records of what the code compares; every database call that matters is
a step of its own, and so is every section under one lock. A `Restart` or `Crash` may
come between any two steps: it loses memory and keeps the database. Definitions marked
*Mutant* are broken variants that show that a property can fail; nothing else uses them.

**DifferentialQuery** (`query.cpp`, `scheduler.cpp`, `diff_results.cpp`,
`config.cpp`). `keys`, `saved` and `stamp` are the database, `run` the locals of
`launchQuery`, `pc` its place. `Launch` computes the differential (a multiset
difference), then `SaveResults`, `SaveEpoch`, `incrementCounter` and `LogItem` follow;
each may fail (`WriteFails`, `LogFails`: a shutdown is requested, and the launch goes on
to its log call as the code does). `Config::update` is `scanSavedQueries`, `purge` and
any number of `UpdateConfig`, the sections of `updateSource`. The scheduler holds
`config_schedule_mutex_` during a launch, so that the latter two fall between launches;
the scan takes no lock and falls anywhere. The epoch is an option and may go back. `consumer` is a reader of the log: counter 0 means all records, other
counters a difference. `integrity` remembers whether a failure of the environment has
separated log and database, and whether the counter tells ("lost") or not ("silent").

**Distributed** (`distributed.cpp`, `distributed_runner.cpp`). One thread: pull, scan,
pop, check and mark as running, execute, flush, clean up, pause. `pending` and `running`
are in the database, `queue` and `results` in memory. A flush may fail before or after
the server has taken the results. Writes to the database may fail, which the code logs
and ignores: a request is then executed twice, SQL runs without a mark or keeps it.
`killed`, `unmarked` and `left` are history: when SQL was killed, whether that execution
had a mark of its own, and whose mark could not be deleted.

**EventStore** (`eventsubscriberplugin.cpp`, `eventfactory.cpp`). The publisher's thread
adds batches and evicts, the scheduler's thread queries. An eviction erases from `index`
under its lock and deletes the keys one by one afterwards. The expiry at the end of a
query is three steps before that, each under a lock of its own: `checkExecuted`,
`boundRead`, `expireRead`; `configUpdate` may clear `queries_` between any two. `optTime` and `optEid` are
the two pointers of a scheduled query, written one after the other. `Restart` rebuilds
the index from the database as `setUp` does.

**BufferedLog** (`buffered.cpp`). A thread draws a key (`genIndex`), stores its line under it and counts it, three steps; the forwarder scans a batch, sends results, then statuses, deletes key by key, purges and
pauses. Keys are ordered as text, so that index 10 comes before index 9, as in the code.
`uid` tells lines apart that get the same key.

**ScheduleDenylist** (`config.cpp`, `scheduler.cpp`) is the worker's side of a kill. Its
`WorkerSpec` lets a watchdog do anything: start, warn, stop or kill at any moment. It is
the abstract specification that **Watcher** (`watcher.cpp`, `init.cpp`, `shutdown.cpp`,
`dispatcher.cpp`, `process.cpp`) implements. Watcher extends it with the runner's loop
(`pc`), the main thread's shutdown (`main`), the mutex that `createWorker` and `stop`
share, the alarm that ends a slow shutdown, and the worker's own check that its watcher
is alive. `barred` and `unfinished` are history.

**Delivery** is the abstract specification of a log buffer: a line that is accepted is
kept until the receiver has it or it is dropped openly. BufferedLog implements it (kept
is what is stored, taken what the server has, dropped what was purged or overwritten
under a key that is used again), and so does SchedulerLoop for the status lines
(kept is the buffer and what relay threads hold). `KeepsPromise` is the refinement.

**Extensions** (`extensions.cpp`, `interface.cpp`, `registry_factory.cpp`,
`registry_interface.cpp`). Each section under `extensions_mutex_`, `uuid_mutex_` or a
registry's mutex is a step of the call's thread: `refresh` reads the registry's uuids and
`prune` uses them later, `conflicts` looks items up that `route` and `attach` add
later, `removeExternal` collects item names in one section and erases them in the next.
`watch` is the manager's watcher; processes start, poll, deregister and die. `slow`,
`partial` and `raced` are history: an extension whose socket opened after the timeout or
that did not answer a ping while it ran, a broadcast refused because of an unknown
registry, an item that two threads were at.

**ConfigRefresh** (`config.cpp`). The main thread, the refresh runner and an extension's
update, the two mutexes, the hash that is stored before the content is parsed, packs that
the content only names and `genPack` asks the plugin for, which may fail, the
backup key by key, the restore of a first refresh that fails and its own failure,
`config_enable_backup`, crashes at every step. `raced` and `unresolved` are history: sources
that two threads updated at once, and whose `genPack` failed under the present hash.

**DatabaseReset**, **Carver**, **LogRelay**, composed by **SchedulerLoop**
(`database.cpp`, `carver.cpp`, `logger.cpp`, `scheduler.cpp`). DatabaseReset is the lock
that a reset holds against every read and write. Carver has the pending flag, the request in two
steps, the runner with the statuses in the database, and the upload block by block, where
a post that fails is skipped. LogRelay has the sink's buffer, the
relay threads, which need the database, and the future that `WaitTillSent` and
`waitLogRelay` wait for. SchedulerLoop is the thread that drives them: queries that log,
a reset that logs while it holds the lock, a relay, a start of the carver, a pause.

**Enrollment**, **Dispatcher**, **EventFactory**, composed by **Lifecycle** (`enroll.cpp`,
`utility.h`, `dispatcher.cpp`, `eventfactory.cpp`, `init.cpp`, `shutdown.cpp`): the worker
from the start of its publishers and services to the closed database. Services are added
before and after the publishers are started (`AddsServices`). A service's
thread loops, makes requests with a node key, may add another service, and ends when it
is interrupted; an enrolment that retries without end is interrupted by the shutdown
request. `addService` lists a service after its thread was created, `stopServices` holds the mutex
while it waits for threads to come up. The two sides of a publisher's end meet in
two flags only. The server of Enrollment is external: it accepts the key it issued last
until it forgets the host. With `DisableReenrollment` a refused key is kept.

`MC...` modules give the constants of an instance; `...Proofs` modules hold theorems.
The type invariant of each module (`TypeOK`, or one named after the component where
components are composed) says what its variables are; all of them are proved (the
lock of DatabaseReset is part of SchedulerLoop's). The definitions of Extensions are
`ExtensionInit`, `ExtensionNext` and `ExtensionSpec`, so that **ProcessProofs** can hold
the proofs about extensions, worker and watchdog together.

## 3. Runs

Passing runs explore the whole state space of their instance.

| Run | Instance | Shows |
|---|---|---|
| `differential` | one query, two rows, two epochs in any order, one crash, one failing write, expiry | `ReplayMatchesSaved`: the log of a query that lost no item replays to the saved rows. `LossShowsAsGap`: a reader that saw every counter has them although items were lost elsewhere. `CounterZeroMarksReset`: counter 0 is logged exactly by a launch that starts over |
| `differential_pack` | a pack query with rows that occur twice, and an event query; numeric monitoring | replay holds although purge expires queries that still run |
| `distributed` | two requests with the same SQL, two crashes, one failing write, clock to 5, duration 1 | `NoRequestForgotten`, `DeniedOnlyAfterKill`, `KilledIsNotReexecuted`, and `AcceptedIsAnswered` as a liveness property |
| `events` | two queries on one table, three events, one restart | `UnreadStaysVisible`, `PointersBehindIds`, `LoggedOnce` across every interleaving of adding, evicting, reading and a restart |
| `events_expiry` | the same without the restart, batches of up to two rows, which may jump over a checkpoint, events stamped a second late | `QueryExpiryOnlyDropsRead`, `BufferBounded`, and again that unread events stay visible: the second that `generateRows` goes back is needed |
| `events_tables` | a query over two event tables | ends with a counterexample, see section 6 |
| `buffered_log` | two lines of either kind, one kept and one scanned at a time, failing sends, one restart, indexes around 10 | the refinement `KeepsPromise`, `CountCoversBuffer`, `PurgesOldest`, and `LineIsTaken` as a liveness property |
| `watchdog` | two packs of one query, one over the CPU and one over the memory limit, one crash, one failure of the environment | `StoppedForGood`, `OnlyUnfinishedBlamed`, `KilledStaysOut`, and `WorkerComesBack` and `ShutdownEnds` as liveness properties |
| `extensions` | two extensions that offer the same item, one of them perhaps with an item of an unknown registry; two starts, one slow socket or ping that is not answered | `RoutesHaveOwner`: no route leads to a uuid the watcher cannot see. `LiveIsKept`: a running extension keeps uuid and routes. `GoneIsRemoved`: one that is gone leaves the registry |
| `config` | two sources, content that does not parse, content that refers to packs, one change of what is served, one update from an extension, one crash | `HashedIsInForce`: what the next refresh skips is in force, except packs by reference that `genPack` did not get. `RestoreOnlyBeforeAnswer`: a backup never replaces an answer of the plugin (it does replace a source that an extension has sent before). `ServedIsInForce`: what is served is in force in the end, with the same exception |
| `scheduler` | one carve of two blocks, two status lines, a reset in every second step, one crash | `SchedulerGoesOn`: relay, reset and shutdown do not wait for each other. `KeepsPromise` and `RelayedInOrder` for status lines, `BufferedIsRelayed`; `CarvedOnce`, `ScheduledIsStarted` for carves |
| `lifecycle` | two services that enroll without end and add each other, one publisher, two keys, one of them forgotten | `ShutdownEnds` and `TornDownAtExit`; `DatabaseOutlivesThreads`; `RunsOnlyWhileUp`: a publisher does not run on resources that are gone; `OneEnrollment` |

*Bounds.* Every bound is a constant named `Max...` and appears only in guards. They are
chosen so that each interesting case happens and its consequence is still seen: two
crashes where the second meets what the first left behind (`distributed`); a clock long
enough for an expiry to be set, to pass and to be used again; two queries, because
"every query has read it" is not "one has"; two lines of the two kinds, because purge
mixes them, and a batch of one, so that a result keeps a status out of the scan; a first index of 0 or 8, so that an index of two digits occurs; two packs,
because a shutdown leaves one of them; two extensions with one item, because one is
refused while the other is at it, and a second start meets what the first left in
`failures_`; two sources, because one that does not parse ends the update of the other;
a reset in every second step, so that a relay meets a step with a reset and one without;
two services, because one enrolls while the other waits for the mutex or adds a service
while the dispatcher stops. One carve only: two do not fit the run, and that none of
several is uploaded twice is the theorem `UploadedOnce`. At the last tick of Watcher every wait is over,
so that the bound on the clock does not block a thread that sleeps. The scheduler's step
is counted modulo `Cycle`, which loses nothing. What the proofs
cover holds for all bounds. Rows of DifferentialQuery and queries of EventStore are
symmetric in their instances; runs with liveness properties use no symmetry.

*Deadlock.* The runs of DifferentialQuery may stop when all bounds are used up, and that of
SchedulerLoop when its loop has ended; the others are checked for deadlock. The actions
`Ended` of Watcher and `Exited` of Lifecycle are the state after a complete shutdown.

*Each property has a mutant* in `PROJECT.json`: a plausible mistake in the code (a
counter that is not reset, an eviction that forgets the index, a check made outside
the lock, a wait that is left out) under which TLC finds the property violated.

## 4. Fairness

* Distributed: `WF(Step)`, the runner's thread is scheduled, and `SF(flushCompleted)`:
  a server that is tried again and again accepts once more. The code retries on
  every round for as long as it fails. The number of crashes is bounded.
* BufferedLog: `WF(Forward)`, the forwarder's thread is scheduled, and
  `SF(send(kind))` for each kind. Without it for results, statuses can starve: the scan
  takes the first `max_log_lines_` keys, and those of results come first. For the same
  reason the bound on the lines logged matters: `LineIsTaken` is about a time when no
  more results come than the forwarder sends.
* Watcher: `WF` of the runner's thread, of the main thread, of the alarm's thread, of
  the orphan's check (a loop that sleeps) and of the clock. None of them waits for an
  event that may never come, except for the mutex, which is the point of `ShutdownEnds`.
  No fairness is assumed of the worker: it may hang for ever.
* Extensions: `WF` of the calls' threads, of the manager's watcher and of a process that
  opens its socket. None of an extension that starts, polls, deregisters or dies.
* ConfigRefresh: `WF` of both refreshing threads and of the extension's call, and `SF` of
  a successful answer to the runner: a remote that is asked again and again answers.
* SchedulerLoop: `WF` of the scheduler's thread, `SF` of the relay threads, the runner
  and the request for a carve, which need the database's lock: the scheduler takes it again
  and again, but pauses for a second between two resets, and a reader gets it then.
* Lifecycle: `WF` of each thread. Requests end within their timeout and a publisher's
  `run()` returns, as its contract asks; the alarm that would end a shutdown that hangs
  is left out, so that `ShutdownEnds` is about the shutdown without it.
* DifferentialQuery and EventStore have no liveness properties; a query runs when it is
  due, and may never be.

## 5. Proofs

All are for arbitrary constants that satisfy the named assumptions of the modules: sets
of queries, rows, requests and SQL texts of any size, any limits, periods and bounds.
A bound such as `MaxCrash` may be any number, so that the theorems are about any number
of crashes.

Named assumptions on the constants say what the proofs need and the code gives: sets that
are finite where their members are counted, limits that are numbers, names such as `None`
that are not members of the sets they complete, at least one relay thread, no event from
before the epoch.

**DifferentialQueryProofs**: `TypeCorrect`, `ReplayCorrect`, `CounterZeroCorrect`,
`GapsTell`. The property speaks of the time between launches; the inductive invariant must
say what holds inside one. `RunInv` ties the locals to the database at every place of the
launch, `CounterInv` says when the counter's key exists, `ShutdownInv` that after a failed
write only the log call is left, and `ReplayInv` that the reader is one difference behind
once the rows are written. The lemma `DiffApplies` (old minus removed plus added is
current, with multiplicities) closes the step that logs. `GapsTell` is about readers that
lost items, for whom `ReplayInv` says nothing: `GapInv` adds that such a reader is never
ahead of the saved counter, and that the item of the current launch gives it the rows if it
is the one it waits for; `SavedInv` ties that item to the counter saved before. Because the
epoch may go back to 0, which is also what a purged epoch reads as, `EpochInv` is needed: a
query that lost items reads back the epoch of its results, and the reader of one that lost
none is in that epoch.

**DistributedProofs**: `TypeCorrect`, `RequestsKept`, `DenialsJustified`,
`KilledBlocked`. `MarkInv`: a mark belongs to the current execution, to a killed one, or to
one that could not delete it.
`KilledInv`: the mark of a killed execution stays until the duration is over, and an
execution of that SQL began after it. Requests need no strengthening.

**EventStoreProofs**: `TypeCorrect`, `IdsStayNew`, `Unhidden`, `ExpiresRead`, `LogsOnce`,
`SizeBounded`. The argument rests on the last event of the newest batch (`Top`): neither
limit evicts it, so a restart finds it and counts ids from it on. `Inv` says so at every
place of the two threads; its proof needs no hypothesis, and neither does `SizeBounded`
(`BoundInv`: since the last checkpoint at most one batch was gained per event). The others
have hypotheses, because without them they are false:

* `OneTable`, each query reads one event table: the run `events_tables` is the
  counterexample without it. With it, `PointerInv` says that the two pointers of a query, and
  the ones it is about to save, never pass the last event; `IdsStayNew` follows.
* `Delays \subseteq {0, 1}`, events are stored within a second of their time: `generateRows`
  goes back one second and no more. With it, `UnreadInv` says that what is unread is in the
  index and ahead of both pointers, also between their two writes, and that no start time the
  expiry uses is past the query's own; `ExpireInv` carries that over the sections of the
  expiry: the queries that were found complete still are, or all were forgotten, and the
  bound is past no query's start unless it is the clock's. `Unhidden` and `ExpiresRead` follow.
* `Delays \subseteq {0}` for `LogsOnce`: with a late event the last one by time need not have
  the largest id, and an id the pointer has not reached is read again (`OnceInv`).

**BufferedLogProofs**: `TypeCorrect` (with the limit of the backoff), `LinesKept`,
`CountCovers`, `Delivers`, `PurgeOrder`. `SentIsTaken` connects what is deleted to what was
taken. For the count, `KeysKept` is needed: the keys the forwarder is about to delete are
still stored, each once, whatever the logging threads have written since; otherwise a
deletion could take from the count without taking from the buffer. `Delivers` is the
refinement: `Spec` implies `KeepsPromise`; the mapped step is `Accept` for a line that is
stored and `Forward` for the rest, and `LinesKept` is what makes a deletion a step of
`Delivery`. `PurgeOrder` rests on lemmas about `scanDatabaseKeys`: keys are strictly
ordered, a scan with a limit returns that many unless fewer are stored, and none it left out
comes before one it returned. So the two scans together hold the oldest lines of both kinds,
as many as purge deletes.

**ProcessProofs** has two parts. *The worker and the watchdog*: `WatcherDrivesWorker`
shows that `Spec` of Watcher implies `WorkerSpec` of ScheduleDenylist: every step of the
watchdog is a step of the worker under some watchdog, or leaves it alone. So `KilledOut`
and `BlameJustified` are proved from the worker's invariant alone and hold under this
watchdog. `Guarded` is the heart: a query that must not run is at every moment named as
executing, as the suspect, or listed for long enough in the place where the next reader
looks. `StoppedCorrect` needs who holds the mutex at which place of the two threads.
`TypeCorrect` includes that restarts are never counted past the limit that is compared
with `==`.

*The extensions*: `ExtensionTypeCorrect`, `RoutesOwned`, `LiveKept`. The invariant has six
parts. `GivenInv` bounds the uuids by the starts; `UuidInv`: a uuid belongs to one process
and its call, and registry and watcher know it only when its registration is over;
`CallInv`: which call a process makes in which of its states. `RouteInv`: whoever is about
to take a uuid out of the registry has erased its routes, and nobody adds any again,
because routes are added for a uuid only while its registration is open; `RoutesOwned`
follows. `WatchInv`: what `failures_` holds against a uuid that is not slow is true of its
process for good, so that a sweep never hits one that runs. `ItemInv`: an item that no two
threads were at is checked, attached and held by one registration, and a removal that
collects names in one section and erases them in the next cannot have collected it.
`LiveKept` needs both.

**LifecycleProofs**: `TypeCorrect`, `EnrollsOnce`, `RunsSafely`, `DatabaseLast`, `TornDown`.
One invariant for each of the three components, over its own variables and the main
thread's place. `EnrollInv`: the client that enrolls is the holder of the key's mutex, and
no key is stored while there is one. `DispatchInv`: a thread that lives is in the list that
`joinServices` empties, or the thread that adds it, which may be the main thread before or
after it has started the publishers, holds the mutex; once `stopServices` has
had the mutex, `stopping_` is set and nothing is added. `FlagsInv`: what `started_` and
`ending_` say of a publisher's loop at every place of the deregistration, which sets the one
before it reads the other; `EndInv`: who still has to tear a publisher down.

**ConfigRefreshProofs**: `TypeCorrect`, `HashedCorrect`, `RestoreCorrect`. `MutexInv`: the
refresh that is inside holds `config_refresh_mutex_`. `UpdateInv` says what holds while a
thread is at a source (`Between`), where the hash is already new and the packs are old, gone,
or new without the ones that are referred to.
`FirstInv`: once an answer was applied, the flag of the first refresh is set only inside
the refresh that applied it, and no other refresh can be about to restore.

**SchedulerLoopProofs**: `TypeCorrect`, `UploadedOnce`, `InOrder`, `Delivers`. `CarverInv`: a
carve that is asked for or scheduled has no session, and the one a runner is at is no
longer scheduled, so no restart takes it up again; the blocks before the one it is at were
posted or skipped, for any number of carves and blocks. `RelayInv`: only the thread of the future
is at work, and what was relayed, its batch and the buffer are increasing and follow each
other; that is `RelayedInOrder`, and with what each step does to the three parts it gives
the refinement of `Delivery` by the status log. `LoopInv` ties the reset's lock to the
loop's place.

Only model-checked: the liveness properties (`AcceptedIsAnswered`, `LineIsTaken`,
`WorkerComesBack`, both `ShutdownEnds`, `GoneIsRemoved`, `ServedIsInForce`,
`SchedulerGoesOn`, `BufferedIsRelayed`, `ScheduledIsStarted`), which are out of this
prover's reach, and that `SkippedWasVisited` fails. Every safety property of a passing run
is a theorem.

## 6. Behaviours a reader of the code should know

One is a run in which TLC shows a disagreement with what the code says of itself:

* `events_tables`: the pointers of a query are shared by all event tables it reads, but
  ids are counted per table; a query over two tables skips events it has not visited.

The others are part of the models, as exceptions in the properties or as history
variables:

* `query.cpp:154`: an event query whose first run returns nothing saves its epoch and no
  counter; its first batch of events is then logged with counter 0, which
  `getQueryCounter` reserves for all records.
* `config.cpp:1059`: purge takes counters and epochs of queries that still run; the next
  difference is logged with counter 0, and when the epoch of results in which an item was
  lost is gone and the flag goes back to 0, these results pass for ones of epoch 0 and
  the loss does not show.
* `distributed.cpp:215`: SQL with an expired mark runs without a new one; if it kills the
  worker again, it runs again at once. `distributed.cpp:232`: a mark that cannot be deleted
  is logged about, and denies SQL that was never killed.
* `eventsubscriberplugin.cpp:290`: `executedAllQueries` and `getExpireTime` take their lock
  one after the other; if `configUpdate` clears `queries_` in between, the expiry goes by
  the clock, and events that no query has read are dropped.
* `buffered.cpp:330`: `log_index_` starts again at 0 in the same second, and a line
  overwrites an unsent one. `buffered.cpp:56`: the scan takes results first; when they come
  at `max_log_lines_` in a period, or wait in a backoff, statuses are not scanned at all.
* `config.cpp:521`: after the warning that a limit was hit, the loop over the packs goes
  on, and a query of the next pack is barred instead of the one that hit the limit.
* `registry_factory.cpp:103`, `registry_interface.cpp:263`: a broadcast with an item of an
  unknown registry ends half way, and what was added stays, outside of what the watcher
  removes (`partial`); a route whose attachment failed keeps its route info.
* `interface.cpp:190`: `refresh` reads the registry's uuids before it takes the lock; an
  extension listed in between is dropped from the list, and exits when it polls. Its
  routes go when the watcher no longer reaches it.
* `extensions.cpp:328`: a ping that a running extension does not answer in time counts as
  its end, and its routes are removed.
* `config.cpp:794`: that `genPack` failed is ignored, and the hash of the content is stored
  already: packs by reference stay out until the content changes or the process restarts.
* `config.cpp:729`: a crash between two keys of a backup leaves a mixture of two
  configurations, which the next start may restore.
* `carver.cpp:138`: a carve that is asked for after the runner's scan loses its flag, and
  waits for the next request or restart; `carver.cpp:115`: one that was cut off by a
  crash is never taken up again; `carver.cpp:357`: a block that fails is skipped, and the
  carve is a success, if need be without any block.
* `utility.h:164`: a late `node_invalid` clears a key that is newer than the request.
* `eventfactory.cpp:237`: a publisher that starts while it is deregistered is torn down
  twice.

## 7. What is not modelled

* Inside the modelled parts: failing reads of the database (a running mark that cannot be
  read is taken for none, `distributed.cpp:213`), invalid rows (a row always serializes,
  `row.cpp:34`), the time
  constraints of queries on event tables and distributed queries on them, accelerated
  check-ins, the text encoding of denylists and results, managed extensions, pids that
  are reused, a process that survives SIGKILL, changes of options while a forwarder
  runs, calls through an extension's route, the autoloading of extensions, discovery
  queries and parsers of the configuration, Windows' shorter wait in `WaitTillSent`, the
  status that a log call returns when one of several loggers failed (`logger.cpp:392`).
  A scheduler that ends by itself (`schedule_timeout`, 0 by default); the read of the host
  identifier before a batch of status lines is taken (`logger.cpp:511`, from the database
  once, and then from memory); the read of the node key for a request's URI
  (`utility.h:56`); two updates of the configuration that purge at the same time. The main
  thread's own TLS requests, made before services exist, are not in Lifecycle. The server
  of Enrollment answers an enrolment before its request times out or does not process it;
  one that does so late may issue a key that nobody stores.
  Services that flags disable are assumed enabled. Where one of these is a hazard it is
  listed as such.
* Platform publishers (inotify, audit, BPF, ETW and others) translate kernel interfaces;
  their part of the protocol is the event buffer and the factory.
* Numeric monitoring aggregates points with a pure function that unit tests reach.
* RocksDB, Thrift, SQLite, OpenSSL and the cloud clients are libraries: they appear as
  calls that succeed, fail, or succeed without telling. A put or a delete of one key is
  atomic.
* Tables, filesystem, hashing and platform code read the host and keep no state that a
  later step depends on; they are most of the source. The shell is a front end.
* The OpenFrame token (`openframe_authorization_manager.cpp:15`) is one string, written
  and read by two threads without a lock; a model would only restate that.

## 8. Plan

Every safety property the runs check is proved. What may follow, each step keeping what is
proved:

1. Lemmas about the operators that several proofs need (limited scans, batches by time,
   lists without repetition) stated once, and shorter proofs with them.
2. The refusal of a broadcast half way (`partial`) and items that two threads were at
   (`raced`) are exceptions of the extensions' theorems: what holds for them, for example that
   a raced item is free or owned by one that runs once the calls are over.
3. The list that `refresh` prunes (`interface.cpp:190`) has its steps in the model and no
   property; what an extension that is dropped from it can rely on would be one.
