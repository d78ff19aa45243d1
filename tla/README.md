# A TLA+ model of emly-go-api

emly-go-api is the backend of the EMLy mail viewer's fleet: it serves installers and the updater's
manifests, a remote configuration document, and a dashboard with fleet statistics and live presence.
It is a Go process over MySQL and S3, with some state in memory. The modules here describe the parts
of it whose correctness depends on interleavings, failures and time, check them with TLC on small
instances, and prove the most important facts with TLAPS for every instance.

Paths below are relative to `src/internal/` unless they start with `src/`.

## Inventory

| Component | State | Operations | Talks to |
|---|---|---|---|
| presence hub (`presencehub`) | `entries`, `nextGen`, grace timers, supersede channels | Connect, Disconnect, Online, grace callback | called by the updater websocket, read by stats |
| updater websocket (`clientws`) | per connection: three goroutines, a context, the token | handshake, read loop, ping loop, watcher, teardown | hub, `updaterclient.Upsert` |
| remote config (`configapi`) | table `remote_config_revisions` | create, publish, rollback, delete; reads | MySQL transactions, sightings |
| config mirror (`configmirror`) | its own copy of that table, sync state | sync loop | the primary's GET /v2/config |
| config documents (`remoteconfig`) | none | parse, match, merge patch, canonical form | used by the two above |
| stats cache (`ttlcache`, `stats`) | map of entries, a mutex per entry | Get | builds query MySQL |
| stats hub and stream (`statshub`, `stats`) | subscribers with buffers; per connection subscriptions and pending marks | Publish, Subscribe, tick; subscribe, unsubscribe, flush | sightings publish into it, presence is read |
| ban list (`middleware/ban.go`, `bans`) | table `bans`, a snapshot per instance | create, delete, Reload, ticker, match | MySQL |
| rate limiter (`middleware/ratelimit.ban.go`) | per address and tier: window, count, failures; the ban map | Handler, record, cleanup | in front of every route |
| sightings (`updaterclient`) | `updater_clients`, `updater_events`, `updater_event_hourly` | Upsert, RecordEvent | MySQL, stats hub |
| event retention (`eventprune`) | the same events | boundary query, batches | MySQL |
| releases and downloads (`updates`, `storage`) | `updates`, `updater_releases`, S3 objects | create, patch, delete, manifests, download | MySQL, S3, sightings |
| schema migrator (`database/schema`) | the schema itself | init.sql, 21 conditional tasks | MySQL, before anything else runs |
| bug reports (`bugreports`) | `bug_reports`, `bug_report_files`, S3 objects | create, delete, download of a file | MySQL, S3 |
| file migration (`storage/migrateFiles.go`) | workers, an error channel | --migrate-files | MySQL, S3 |
| log files, admin users and sessions | files; two tables | see `PROJECT.json` | disk, MySQL |
| wiring (`src/main.go`, config, telemetry, middleware glue) | none after start | start, shutdown | all of the above |

What is hard in it, and what makes each part correct:

- *Presence.* A machine may hold several connections, each torn down by three goroutines at its own
  pace, while timers of connections long gone still fire. Correct means: the newest connection
  decides, nothing old can take it offline, nothing is left behind, no channel is closed twice.
- *Remote config.* Handlers are transactions of several statements. Correct means: one document is
  published, never none again, history stays; and a mirror that fetches and stores in separate steps
  holds what the primary published.
- *Caches and snapshots.* The stats cache and the ban snapshot are read and replaced by overlapping
  requests and tickers. Correct means: one build per key, nothing stale beyond what is promised, no
  lock left behind, and convergence to the table.
- *Config documents.* A host gets the global document with every matching override merged in, through
  a JSON round trip each time, although each was accepted alone. Correct means: the last override
  that mentions a setting decides it, and what the host gets is as valid as what was accepted.
- *Stats stream.* Events are dropped when a subscriber is slow, coalesced, and refreshed by queries
  that race with the client's own changes. Correct means: a stale channel has a refresh coming, or
  the tick repairs it; a connection that ends leaves no subscriber behind.
- *Releases.* A slot (stable, beta, critical, current) moves by clearing and setting in one
  transaction, and the installer is in another system than its row. Correct means: one holder per
  slot, none lost to a failed promotion, and an installer that fits its checksum.
- *Start-up and bug reports.* DDL commits statement by statement and the process may end between two;
  files are uploaded by many workers that report into one bounded channel; objects outlive rows.
  Correct means: a start either brings the schema to its full form or fails only where a torn task
  explains it, a successful file migration left nothing behind, and a download returns its own file.
- *Rate limiting.* Counters under a mutex, bans in a lock-free map, a cleanup, and time boundaries.
  Correct means: bounded throughput, and nobody is shut out for ever.
- *Telemetry.* Identity resolution is a sequence of statements without a transaction against two
  unique keys; events are counted in the same transaction that stores them and pruned by another
  process. Correct means: the right row, a rollup that agrees with the raw rows, and a retention that
  deletes what is expired and nothing else.

`PROJECT.json` lists every component, also those that are not modelled, and the hazards line by line.

## Modules

| Module | Models | Extends |
|---|---|---|
| `PresenceHub` | `presencehub/presencehub.go` | |
| `Presence` | what the hub promises (abstract) | |
| `ClientWS` | `clientws/client_ws.route.go` over the hub | `PresenceHub`, instantiates `Presence` |
| `ClientWSProofs` | theorems about `ClientWS` | |
| `ConfigRevisions` | the write handlers of `configapi/config.route.go` | |
| `ConfigMirror` | `configmirror/configmirror.go` with the primary | `ConfigRevisions` |
| `ConfigProofs` | theorems about both | |
| `ConfigDocuments` | `remoteconfig` (`parse.go`, `match.go`, `types.go`) and the preview handler | |
| `TTLCache` | `ttlcache/ttlcache.go` and its callers in `stats/stats.route.go` | |
| `BanList`, `BanListProofs` | `middleware/ban.go`, `bans/bans.route.go` | |
| `RateLimiter`, `RateLimiterProofs` | `middleware/ratelimit.ban.go` | |
| `UpdaterClients` | `updaterclient/updaterclient.go` | |
| `EventPrune` | `eventprune/eventprune.go` beside the ingest | `UpdaterClients` |
| `TelemetryProofs` | theorems about both | |
| `Releases`, `ReleasesProofs` | `updates/updates.route.go`, `updates/updater.route.go`, the store as they use it | |
| `StatsHub` | `statshub/statshub.go` | |
| `StatsStream` | `stats/stats_stream.route.go` with its publishers | `StatsHub` |
| `StatsProofs` | theorems about `TTLCache` and `StatsStream` | |
| `SchemaMigrator` | `database/schema/migrator.go`, for any list of tasks | |
| `SchemaTasks` | `database/schema/init.sql`, `tasks.json`: the list of the repository | |
| `BugReports` | `bugreports/bug_report.route.go` | |
| `Process` | `src/main.go`, `storage/migrateFiles.go` | `SchemaMigrator`, `BugReports` |
| `ProcessProofs` | theorems about `Process`, `BugReports` and `SchemaMigrator` | |
| `MC*` | constants of the runs | |

A definition whose name starts with `Faulty` is a variant of the definition that follows it, as a
plausible bug would make it. No specification uses one. Each shows that a property is sensitive to
the code: with it in place of the real definition TLC finds the property violated (`PROJECT.json`,
"mutants").

### How state and actions correspond to the code

**PresenceHub, ClientWS.** Every hub method holds `Hub.mu` and is one step. A timer is two steps:
`GraceExpire`, after which `Stop` no longer helps, and `GraceCallback`, which needs the mutex. A
connection's handler is the program counter `pc` in the order of the code; `pinger` and `watcher` are
its two other goroutines; `ctxDone` is the context they share. `peer` is the environment: a client
that has gone silent. Frames that only restart the idle timer are not steps. `Registered` is the
stretch between the hub's Connect and Disconnect.

**ConfigRevisions.** A handler's transaction is a record in `tx`; its writes become visible in
`Commit`. Row locks (`rowLock`) and the lock on the range `status = 'published'` of `idx_status`
(`pubLock`) are what InnoDB holds for FOR UPDATE and UPDATE at its default isolation; they are
external to the code and the module's header says which guarantees are used. A deadlock, a lock wait
timeout, a failed statement and a vanished client are all `Abort`.

**ConfigMirror.** Reading the local ETag, fetching and storing are separate steps, and `SyncFails`
stands for every error and for a crash. An ETag is the pair of revision and content, since the hash
is taken over both.

**TTLCache.** `Cache.mu` covers the lookup, one step. `entry.mu` is `lock`. Entries are slots of a
heap so that one which the map has dropped lives on under its callers. A payload is the time of its
database read. `latest`, `floor` and `dropped` are history.

**BanList.** The SELECT of a Reload and the replacement of the snapshot are two steps; the three maps
are one set. Any number of Reloads of one instance overlap, as in the code. An identifier is a spelling
of a hostname, a HWID or an address, and three notions of equality are kept apart: what the handler
stores for it (`NormalizeBanValue`: hostnames lower-cased, addresses parsed and rendered, HWIDs as
typed), what `uniq_ban` takes for the same row (`Collation`, case-insensitive for every type), and what
the matcher compares (`MapKey`: only hostnames are folded).

**RateLimiter.** One address. `record` is a step under the mutex; Load, Delete and Store of the ban
map are steps of their own. All clocks are relative (age of the window, time since the last request,
time left of the ban) and saturate where the code no longer distinguishes values, so time is
unbounded while the state is finite. `passed` is history: for each tier and each `n` below its window,
the number of requests let through in this tick and the `n` before it.

**UpdaterClients, EventPrune.** Each statement of Upsert is a step; the unique keys refuse rows as
MySQL does. Session headers are reduced to the five cases the columns tell apart, and the three
logged-user columns to whether there is a user, the state, and whether there is a time; `OneSession`
says how they belong together. An event is
invisible between its INSERT and the commit, but it has its id, holds its parent row's lock, and a
prune batch that meets it waits. `alone` and `unseen` are history.

**ConfigDocuments.** Operators, and one variable for the preview request. A JSON value is a tagged
tree; `RoundTrip` is what decoding into the Go struct and encoding again makes of it (zero values for
absent fields, unknown keys dropped, a wrong type is an error), `mergePatch` is RFC 7386 as the code
applies it. Sections keep one field of each kind that behaves differently; names compared without
case, short names of domain controllers and subnets are compared as classes.

**Releases.** Both catalogues: the slots and the order in which a create and an update clear them are
parameters. A request is a record: a clearing UPDATE per slot, the write of the row and the commit are
steps; upload, delete and read of the object are steps outside the transaction. `slotLock` is the
range of a slot's index that the clearing UPDATE locks, `rowLock` a row. A checksum is the content it
was computed from. `writes` is history.

**StatsHub, StatsStream.** A hub operation is a step under its mutex. A connection is three goroutines:
`reader` (messages and snapshots), `loop` (hub events, marks, flush) and `ping`. A query and the send
of its result are separate steps. What a client sees of a channel is the number of ingested events the
last message reflects. `fits` is the filter of the events channel (`wsEventMatchesSubscription`): the
events its window, type and product let through. A connection opens with a window that ends at that
moment, so what is published later is outside until the client sends other parameters. `lost` is
history: a drop, a skipped publish, a failed query, an overtaken message, or new parameters that do not
name a subscribed channel which depends on them (the code refreshes only the named ones).

**SchemaMigrator, SchemaTasks, BugReports, Process.** The schema is the set of tables, columns and
indexes; every statement is a step and the process may end before each. `init.sql` and the tasks are
parameters of the migrator (`InitSQL`, `Tasks`), and `SchemaTasks` has the ones of the repository. Each
INSERT and each upload of the bug report routes is a step. `boot.pc` follows `main` from Migrate over
--migrate-files to the server and its shutdown; `Die` is every end of the process, after which database
and store are what they were. The file migration reads the reports and the files of each row by row
(`ReportRow`, `FileRow`) while the first workers already upload. `Next` of a row set is FALSE after the
last row and also when the connection is lost (`EndOfFilesRows`, `EndOfReportsRows`), and since
`rows.Err` is never called the code goes on in the same way; `rows.cut` is history and tells the two
apart. `torn`, `clashed` and `migrated` are history.

## Runs

| Run | Instance | Shows |
|---|---|---|
| `clientws` | 1 machine, 3 connections | invariants, refinement of `Presence`, teardown and "no ghost" liveness |
| `config` | "revisions": 2 administrators, 3 revisions, 2 contents, 1 mirror; "preview": 2 documents, up to 2 overrides of 3 selections and 8 patches, 4 hosts | one published document, history kept, mirror faithful and convergent; the last override wins, the effective document is valid |
| `config_monotone` | the revisions alone, 1 content | **violated**: an overlapping publish makes the served revision go down |
| `ttlcache` | 2 callers, 2 keys, a map for 2, TTL 2 | single flight, no older answer after a newer one, every call returns |
| `banlist` | 2 operators, 2 instances, 2 rows; a hostname in 2 spellings with 1 restart, 2 HWIDs of one key, or an address in 2 notations | the row of the answer is enforced when CreateBan answers; convergence |
| `banlist_overtaken` | 1 operator, 1 instance | **violated**: an overtaken Reload forgets an acknowledged ban |
| `ratelimit` | 2 requests, tiers with limits 1 and 2, windows 1 and 2 | sliding bound; persistent clients are served again |
| `telemetry` | 2 sightings; "fleet": 5 kinds of report, 3 rows; "retention": 1 machine, 3 events, 3 hours, retention 1, batches of 1 | undisturbed sightings stored right, with the columns of one session; rollup; retention safety and progress |
| `releases` | 2 requests, 2 versions sharing a file name, 2 contents, 2 slots | one holder per slot, none lost, installers nobody touched fit their checksums |
| `releases_served` | the same | **violated**: a download streams bytes its checksum does not describe |
| `stream` | 1 connection opening again and again, a buffer of 1; "burst": 2 events, the clients channel; "dashboard": 1 event inside or outside the filter, all channels | a stale channel is owed a refresh, the tick repairs what was lost, connections end |
| `process` | an empty and an old database, 2 reports, 2 files, a channel of 1 error, 2 ends of the process | schema complete, starts fail only after a torn task, downloads return their own file, the file migration is honest and ends |

The largest runs have between 99,000 and 550,000 distinct states (`process` 546,379, `telemetry`
230,642, `releases` 191,566 under symmetry, `stream` 182,333, `ratelimit` 105,561, `config` 99,850). In
four runs a variable `scenario` keeps a behaviour to one of two or three bounds whose product would be
too large; nothing that the code does relates them (bans of different types share only the ids).

Why these bounds are enough for the cases that matter: three connections are a superseded one, its
successor, and one that reconnects while an old callback is still on its way; machines share nothing in
the hub. Three revisions give two concurrent drafts and something published before them. Two overrides
are the least in which one patch meets what another left; longer lists repeat that, since each is merged
into the result of those before. Two keys fill the cache's map, so the next lookup drops it under a
build in flight, and three slots leave room for the orphan. Two rows let a ban be deleted and created
again under a new id; two spellings of each type are a banned one and one asked for. Each tier of the
rate limiter has another order of window and ban. Five kinds of report make a hostname change hands, an
hwid appear on a legacy row, and a name vanish. Batches of one row make a pass consist of several. Two
releases that share a file name are what makes uploads and deletions collide, and two slots cleared in
opposite orders make the deadlock that InnoDB resolves. A buffer of one event drops the second of a
burst. Two ends of the process tear a task and tear the attempt to repair it; a torn database is
followed to the end of Migrate, where its property is. An error channel of one is full after the first
of two failures, as 128 are after the 129th.

`CHECK_DEADLOCK FALSE` is set where the bounded system really stops: connections are used once, and
revisions, rows, events and hours run out. The cache and the rate limiter go on for ever and are
checked for deadlock.

### Fairness

Goroutines that can run do run, and mutexes are handed on (Go's `sync.Mutex` gives the lock to a waiter
that has starved): weak fairness for the internal steps of a handler. A read of a silent peer returns
because each read has a deadline (`clientWSIdleTimeout`, and 30 s for queries through the router's
timeout). Timers expire. Tickers go on. Strong fairness is assumed where the code retries for ever and
one success is enough: the mirror's fetch and store, the ban list's ticker, the prune loop, and the
queries of the stats channels that the tick refreshes; that is, the database and the network do not fail
on every attempt. It is also assumed of the cases of the stream loop's `select`, which Go chooses among
at random, so that none is passed over for ever. The rows and the uploads of the file migration end, one
way or the other: the calls have no deadline of their own (`context.Background()`), so this is an
assumption about the database, the store and the connections. `AlwaysServedAgain` assumes that the
client keeps trying, since it is about such a client; nothing else is assumed of clients,
administrators, or the cleanup.

## Proofs

| Module | Theorems | Inductive invariant |
|---|---|---|
| `ClientWSProofs` | `Ownership`, `NewestConnectionOnline`, `ConnectNeverPanics`, `EntriesAccountedFor`, `CloseReasonHonest`, `GraceProtectsReconnect`, `RefinesPresence` | `ClientWS!IInv` |
| `ConfigProofs` | `PrimaryLocking`, `PrimaryServesOne`, `PrimaryKeepsServing`, `PrimaryKeepsPublished`, `MirrorInvariant`, `MirrorCopiesPrimary`, `MirrorServesOne` | `ConfigIInv`, `ConfigMirror!IInv` |
| `StatsProofs` | `CacheInvariant`, `OneBuildPerKey`, `CacheReadOrder`, `AnswersInOrder`, `StreamInvariant`, `StaleIsOwed` | `TTLCache!IInv`, `TTLCache!ReadOrder`, `StatsStream!StreamIInv` |
| `BanListProofs` | `BanInvariant`, `CreateBanTakesEffect` | `BanList!IInv` |
| `ReleasesProofs` | `ReleasesInvariant`, `SlotSafety`, `InstallerSafety`, `SlotKept` | `Releases!IInv` |
| `RateLimiterProofs` | `LimiterInvariant`, `SlidingBound` | `RateLimiter!IInv` |
| `TelemetryProofs` | `TelemetryInvariant`, `SightingStored`, `RollupCovers`, `PruneSpares` | `EventPrune!IInv` |
| `ProcessProofs` | `ProcessInvariant`, `DownloadsServeTheirOwn`, `MigrationStores`, `SchemaInvariant`, `MigrateMakesReady`, `StartsFailOnlyTorn` | `Process!IInv`, `SchemaMigrator!SchemaIInv` |

They hold for every value of the constants under the named assumptions of the modules
(`NoClientAssumption`, `ConfigAssumption`, `CacheAssumption`, `BanAssumption`, `ReleasesAssumption`,
`LimitAssumption`, `ClientsAssumption`, `PruneAssumption`, `HubAssumption`, `StreamAssumption`,
`ReportsAssumption`, `ProcessAssumption`, `TasksAssumption`), which say that the null values are outside
their sets, that bounds, limits and durations are natural numbers (positive where the code needs it),
that lower-casing twice is lower-casing once and does not change the unique key of a hostname, and what
a list of tasks keeps to (see below). TLC evaluates them on every run. Each inductive invariant was
checked by TLC on the instance of its run before it was proved, and some stay among the run's properties
(`PROJECT.json`, "runs").

- *Presence.* That the newest connection is online is not inductive: a late Disconnect or callback
  could hit it. `IInv` adds that tokens are issued once (so a generation names one connection), that
  every entry belongs to a connection which is registered exactly while the entry has no timer, and
  that a waiting callback belongs to a connection that has disconnected. A callback or Disconnect that
  finds its own generation in the map therefore cannot be looking at a registered connection. The
  refinement maps an entry to offline, connected or grace; its safety part is proved, its liveness is
  checked by TLC.
- *Remote config.* That one row is published follows from what the transactions hold: a publisher
  between its UPDATE and its commit is alone with the published rows (`PublisherAlone`), its draft
  stays a draft (`DraftHeld`), and an inserted number stays free because its predecessor is locked
  (`AllocHeld`). The mirror adds only that a fetched document stays what the primary published under
  its number (`FetchedWasPublished`), which holds because published rows never change.
- *Cache.* Two builders of one key without a drop would have the same entry (`PointsIntoMap`) and
  both hold its mutex (`LockHeld`). That no answer is older than one already given needs the order of
  the builds (`ReadOrder`): the entry in the map holds a payload at least as new as every answer given
  for its key (`MapIsNewest`), a build reads later than the payload it replaces was read
  (`BuildsInOrder`), and an entry that the map has dropped under a caller is never in the map again, nor
  does it serve two keys (`EntriesApart`). `FloorBelow` carries what was answered before a caller called
  Get to the payload it gets. The property excepts callers whose entry the map dropped meanwhile, and
  the proof shows that nothing else makes an answer go back.
- *Stream.* That a stale channel is owed a refresh says nothing of which events the refresh will have
  in it, so it is not inductive. `EveryEventComing` follows each event instead, from its INSERT through
  the publish, the buffer (`InHub`), the marks and the row noted last (`Noted`), a flush (`InFlush`) or
  a snapshot (`InSnapshot`) to the view, and says that what is on its way has at least that event in it.
  It needs that nothing is ahead of the database (`NothingAhead`), that a row was read after the event
  it comes with was stored (`IngestsInOrder`), and that a flush works with the parameters of the
  subscription (`LoopOfConnection`). Of the events channel it follows the events that pass the filter
  (`Awaited`). What breaks the chain, a full buffer, a skipped publish, a failed query, an older row or
  message after a newer one, parameters without the channels they concern, is what `lost` counts. An
  event after the default window's end passes no filter, so the theorem leaves such a chart as it is.
- *Schema.* `SchemaIInv` says where in the list of statements a database is on which no task was torn:
  part of init.sql (`InitGoesOn`), or the base tables with exactly the statements up to one place
  (`Reached`, `TaskGoesOn`, `ChecksGoOn`). A start begins its checks anew, so the proof is that the
  checks find that place again: a task that is done is not run (`DoneDoNotRun`), the first that runs is
  the one that is next (`SkippedChangeNothing`, `RunningIsNew`; tasks 1 and 2 are skipped where init.sql
  has made what they are for), and a statement in its place finds what it needs and nothing of what it
  makes (`StepWorks`). This holds for any list with `TasksAssumption`: no two statements make or drop
  the same object, a statement needs what base tables or earlier statements made, what is dropped was
  made before and not by init.sql, and each task asks for something it makes for good, or only drops and
  asks for what it drops. That is what a new entry of `tasks.json` has to keep to; TLC evaluates it on
  the list of `SchemaTasks`.
- *Ban list.* A request's SELECT comes after its own INSERT, ids are never reused, so as long as the
  row exists the list that is swapped in contains it (`SelectSeesOwnRow`). A hostname is stored
  lower-cased (`RowsWellFormed`), so whatever spelling of it a request carries matches the row. The
  theorem is about the row of the answer: with a HWID that differs from a banned one in case only, that
  is the other HWID's row.
- *Releases.* That a slot has one holder is not inductive: a commit could add a second one. `IInv` adds
  that a transaction which has cleared a slot still holds its range, and has reset every flag in it but
  its own (`ClearedIsLocked`, `FlagsOnRows`), that at its commit it has cleared all it takes and holds
  its row (`ReadyToCommit`), and that nobody else sets flags (`SlotsOfWriters`). `SlotKept` uses the
  same facts: a commit that resets a flag also sets it, since its own row exists and is locked.
  `InstallerInPlace` carries the upload, which comes before the row, to the row.
- *Rate limiter.* The code counts in fixed windows, the bound is about every stretch of time. A stretch
  as long as a window meets at most two of them, and `passed` is split where the current one opened:
  what came since is at most the count (`WindowCounted`), what came before is at most one limit
  (`OneWindowBefore`), which a window that opens inherits from the one it closes. The cleanup forgets
  only an address that let nothing through for a window (`NothingSinceSeen`), so that starting anew
  costs nothing.
- *Telemetry.* Upsert decides by what it read some statements ago. `Knows` says, for each statement,
  what a sighting has learned of the row it is about to write; a step of another sighting that makes it
  untrue clears `alone`, so an undisturbed one still has it right (`UndisturbedKnows`), and the two
  unique keys (`UniqueKeys`) turn "the row I found" into "the only row". `RollupCoversEvents` holds
  because the event and its count commit together under the same hour, and the prune only takes events
  away. The session columns are consistent in every row (`OneSessionEach`), because a report either
  leaves the state and the time alone or writes both. For the prune, ids only grow (`EventIds`) and an
  event out of the window does not come back into it, so a boundary stays right while it is used
  (`BoundaryHolds`).
- *Bug reports, file migration.* Several steps in different requests put a file's bytes under a key: the
  create, the lazy upload after a download from the row, the migration. `Claims` collects every place
  from which they may still come. Only the INSERT of a file makes a new claim; under a live report each
  claim is that of a row (`ClaimsBacked`, since rows go only with their report and its id is not given
  out again), and two files with one claim are marked as clashing (`ClaimsApart`). A download that finds
  an object under its key therefore finds its own file. For the migration, `WorkersAccounted` says that
  a worker is done with its file only when the file is stored or an error was counted, and `RowsRead`
  that the files of the reports which are over have a worker unless the rows were cut, so that none is
  missing when all are done, no error came up and no connection was lost in the middle of the rows.

Only model-checked:

- liveness, and the liveness part of the refinement: the prover has no support for fairness;
- `LastOverrideWins` and `EffectiveStaysValid`: `ConfigDocuments` computes on trees with RECURSIVE
  operators, which the prover cannot use.

## What the violated runs show

1. `config_monotone`: PublishConfigRevision reads the published revision with a plain SELECT
   (`config.route.go:475-484`) and supersedes later. With drafts 1 and 2, publish(1) passes its check,
   publish(2) commits, and publish(1) supersedes 2: the fleet goes from revision 2 back to 1, which the
   comment on RollbackConfig excludes.
2. `banlist_overtaken`: a ticker's Reload that has read the table before a CreateBan installs its list
   after it. The acknowledged ban is off until the next tick; `EveryInstanceConverges` (every instance
   ends up refusing exactly what matches a row) shows it is not lost.
3. `releases_served`: the installer is uploaded under the client's file name before the INSERT. A create
   that reuses the name, or fails afterwards on a version that exists, has replaced the bytes of the
   release that is listed, whose checksum stays. `UntouchedInstallerServed` is what does hold.

Met while modelling, without a run of their own:

- *Config.* The comment on DeleteConfigRevision (`config.route.go:267`) says a deleted draft does not
  free its number; MAX(revision) + 1 gives it out again. `MirrorFaithful` shows that no mirror is
  misled, since only drafts are deleted.
- *Config documents.* Overrides are tried one by one on the global document, and a host gets several:
  `{"updater":{"resolver":null}}` and `{"updater":{"resolver":{"baseBackoffSeconds":5}}}` are each
  accepted and together leave an invalid resolver; `{"defaultServer":null}` is accepted and leaves an
  empty default server (`parse.go:57-61`, `349-351`; `EffectiveStaysValid` says what is guaranteed). The
  message for a forbidden patch key leaves out clientWs (`parse.go:342`, `types.go:214`). A host that
  two sites match gets either, in the order of a Go map.
- *Telemetry.* Two machines that report a hwid and no hostname both want the row ('', ''), and the second
  one's reports are refused, against `updaterclient.go:434-435`. An Upsert whose row is deleted between
  lookup and UPDATE returns an id without a row. A prune pass deletes an event that was uncommitted
  when its boundary was read if a later one was already committed (`PruneSparesTheWindow` excepts it).
- *Ban list.* `uniq_ban` ignores case for every type (`15_bans.sql:19-21`) and the matcher only for
  hostnames (`ban.go:118-138`). With HWID `ABC` banned, a CreateBan of `abc` answers 200 with the row of
  `ABC`, "a state that already holds" (`bans.route.go:43-46`), and a machine that reports `abc` is not
  refused, nor can a row for it be made. `CreatedBanInForce` speaks of the row of the answer.
- *Rate limiter, cache.* A ban stored between the Load and the Delete of an expired one is lost
  (`ratelimit.ban.go:168-173`). Waiters of a failed build build again instead of failing with it
  (`ttlcache.go:62-66`).
- *Stream.* The pending row of a machine is the one noted last, which need not be the freshest
  (`stats_stream.route.go:138`). The events channel is not repaired by the tick. Its default window ends
  when the connection opens (`stats_stream.route.go:155`), so later events never mark it, although the
  hourly query (`stats.route.go:438-441`) counts those of the same hour: the chart stays behind until the
  client sends a later `events.to`. The helper of the tests says of this window that "any event
  timestamped "now" falls inside it" (`stats_coalesce_test.go:17-19`). New parameters refresh only the
  channels that their message names. A flush made for old parameters may overtake the snapshot for new
  ones.
- *Start-up.* A process that ends inside task 1 or 5 makes every later start fail; inside task 6 or 21
  the rest of the task is skipped for good (`20_updater_event_hourly.sql:47-50` says so of the last).
  The comment at `migrator.go:34-35` says all conditions, code and `src/DOCS.md:698` say one.
- *Files.* Files of one report with the same name share an object. DELETE leaves the objects in the
  bucket. The key of the lazy upload is never read. A connection lost in the middle of the rows ends
  --migrate-files early and with success, since `rows.Err` is not called (`migrateFiles.go:28-104`;
  `MigratedFilesStored` then speaks of the rows that were read). One failed upload more than the error
  channel holds blocks --migrate-files for ever (`FilesMigrationEnds` excepts it).
- *Releases.* A PATCH that changes nothing is answered 404, since MySQL counts changed rows.

## Not modelled, and the plan

Left out, with the reason: log files (rotation by date under one mutex, I/O); admin users and sessions
(single statements, and validity is one comparison in a SELECT); the per-route limiter (a configuration
of a library); the routes that only read; the status of a bug report (one UPDATE); the formats that the
document validators check (URLs, CIDRs, versions, dates), `validateTop`, `validateIPCProtocol` and the
report of unknown fields; HTTP routing and header checks, formatting, logging, OpenTelemetry; and S3 and
MySQL themselves beyond the guarantees named above.

Every safety property of the runs is proved, except the two of `ConfigDocuments`. What could come next:
`mergePatch`, `Decodes` and `RoundTrip` written out for the depth that a document has, without RECURSIVE
operators, so that these two can be proved as well; and the torn tasks, should the migrator learn to
take one up again.
