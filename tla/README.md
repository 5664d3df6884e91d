# A TLA+ development of the AIS tracker

The tracker is one Go binary beside a Postgres 16 database (TimescaleDB,
PostGIS, wal2json). It ingests AIS messages from a WebSocket feed, stores them,
keeps a live map current, runs detectors over the stored positions, and turns
what they find into alerts and a change stream. These modules model its
stateful parts, check them with TLC on small instances and prove the main
results with TLAPS for all values of the constants. Paths below are relative to `src/api/`.

## 1. The system

| component | code | state | operations | correct when |
|---|---|---|---|---|
| AISStream client | `internal/ingest/aisstream` | socket, backoff, counters | connect, decode, `emit` into a bounded channel (full: drop) | it never blocks, and counts what it drops |
| Batched writer | `internal/ingest/writer` | batch, counters | select loop; `flush`: mark duplicates, COPY raw, COPY positions, upsert vessels, upsert last positions, enqueue enrichment, broadcast, rate; final flush; `RebuildLastPositions` | derived tables follow the archive, nothing is lost unnoticed, the cache holds the newest fix |
| Deduplication | `internal/ingest/dedup` | `ingest_dedup_window` | `MarkBatch`, `Purge` | a repeat within the window is tagged, an original never |
| Rate counter | `internal/ingest/rate` | `source_rate_counters` | `Incr`, `Purge` | it counts no message that is not stored |
| CDC consumer | `internal/cdc` | replication slot, `lastLSN` | `EnsureSlot`, sessions, `dispatch`, standby updates | no change is missed, the slot advances |
| Listener | `internal/notify/notify.go` | connection, output channel | connect, LISTEN, receive, push | back pressure, no alert dropped while connected |
| Router, adapters | `internal/notify/dispatch.go`, `adapters` | event at hand, attempts, `alert_dispatch_failures` | fan-out, retry, dead-letter | every wanted event is delivered or recorded |
| WebSocket hub | `internal/api/ws.go` | subscribers, bounded queues, filters | `Broadcast`, `Serve`, `readLoop`, `Shutdown` | a slow subscriber never delays a flush |
| Job queue | `internal/workers/queue` (River) and `queue/naive` (SKIP LOCKED) | job rows, locks | enqueue, claim, work, delete | no job lost, none worked twice at once |
| Detectors | `internal/workers/{gaps,geofence,portcall,sts}` | `ais_gaps`, `geofence_events`, `port_calls`, `sts_events` | periodic scans over `positions` | one row per real event, closed when it ends |
| Other workers | `enrich`, `retention`, `sanctions`, `backfill`, `embed`, `anomaly` | their tables | periodic or enqueued jobs | the work gets done through retries, and once where once matters |
| Operators | `internal/enrichment/operators`, migration 000017 | operators, aliases, review queue, ownership tree | `Resolve`, parent change under a cycle trigger, two recursive queries | no silent fork or merge, no cycle |
| Destinations | `internal/workers/destnorm`, `internal/reference/ports` | `destination_hints`, `ports` | scan, three lookups per word, upsert; `Seed` | a hint is the best of its signals |
| Supervisor | `cmd/tracker/main.go` | errgroup, shared context | start, cancel all on the first error or signal, forced exit | every component stops |
| HTTP API, search, web UI, loaders, plumbing | `internal/api`, `web/`, `cmd/*`, `internal/{config,log,db,metrics,reference}` | none of their own | queries and encoding | not modelled |

How they interact. The client hands messages to the writer through the Go
channel `msgs`. The writer calls the deduplicator, the queue's enqueuer, the
hub's `Broadcast` and the rate counter in the course of a flush, all on its own
goroutine. Detectors read `positions` and write event tables; triggers on two
of them raise NOTIFY, which the listener hands to the router through its output
channel; the CDC slot streams five event tables to a sink. All components share
one context.

What is hard: a flush is six statements without a transaction, each of which
may fail, or fail at the client after it committed; the service and the
database crash independently, and a database crash truncates the UNLOGGED
tables; `select` chooses at random among a cancelled context, a ticker and a
message; messages come late, out of order and twice; WAL positions of changes
and of their commits interleave; the alert path retries while its channel fills
up. `PROJECT.json` lists these hazards at their lines with the properties that
answer to them.

## 2. The modules

| module | what it is |
|---|---|
| `Ingest` | client, channel, writer, deduplication, five tables and the enqueued jobs, clock, shutdown, restarts, database crashes |
| `LiveMap` | what the ingest path promises: an archive that grows, a cache that only moves forward or empties, a feed of archived messages only |
| `IngestProofs`, `FlushProofs` | theorems about `Ingest`: tables, counters, refinement of `LiveMap`; the deduplication window and the rebuild; the cache against the feed |
| `Cdc`, `CdcProofs` | the WAL, the slot, sessions, dispatch, progress, standby updates, failures, restarts; theorems about them |
| `Notify`, `NotifyProofs` | the connection and its LISTENs, the listener, its output channel, the router, retries, dead letters, shutdown; theorems about them |
| `Hub` | WebSocket subscribers, their queues and filters, the broadcaster, connections |
| `Service` | composes the hub with the supervisor, the HTTP server, the writer as the broadcaster, and other components |
| `ServiceProofs` | theorems about `Service`: what a WebSocket connection gets, the exit code |
| `Detectors`, `DetectorsProofs` | the periodic scans for port calls, gaps, crossings, transfers and holes over one table of positions; theorems about them |
| `Workers` | River's job rows and the jobs of five kinds: sweeps, sanctions refresh and match, retention, enrichment |
| `JobQueue` | what a job queue promises |
| `NaiveQueue`, `NaiveProofs` | the hand-rolled queue statement by statement; that it implements `JobQueue` and how often it handles a job, proved |
| `Names`, `NamesProofs` | operator resolution, the ownership tree and its queries, destination normalisation against the gazetteer; theorems about them |
| `MC*` | instances of these for TLC |

Where components interact, the interaction is in one of three places. `Ingest`
has the client, the deduplicator, the enqueuer, the broadcast and the rate
counter as steps of the flush. `Service` composes the hub with the flush that
broadcasts and with the supervisor that stops both. Elsewhere one side is an
environment of the other: `Detectors` reads positions that appear in any order
the writer can store them, `Notify` hears any alert the detectors' triggers can
raise, and `Workers!EnqueueEnrichment` is the insert that `Ingest` shows to
happen at most once per vessel.

### Ingest

`unsent` is what the feed may still deliver; two deliveries of one broadcast
are two records with the same `Fingerprint`. `Emit` is a decoded frame going
through `emit`. `pc` is the position of the writer goroutine: in its `select`
(`Take`, `TickerFires`, `ContextDone`, any of which may be chosen when ready) or
before one statement of `flush`, each an action of its name. A statement
succeeds, fails without effect, or fails after it took effect. An error is
counted and the batch discarded (`Abandon`), except in `markDuplicates`,
`enqueueEnrichment` and `recordRate`, which only log. The context is `live`,
`cancelling` (cancelled while a statement runs, which may yet commit) or
`cancelled`; `final` says that the flush is `finalFlush`, under its own
context. `Kill` is a crash or the forced exit, `DbCrash` the truncation of the
UNLOGGED tables, `Start` a start of the service with the rebuild of the cache.

Abstractions: names, motion fields and payload bytes are left out; a COPY is
atomic, as it is in Postgres; the counters of duplicates, positions and flushes
are left out, as nothing depends on them; the rate counters are one number and
their purge is left out; the rebuild takes all archived position-type rows,
that is, the metadata of a position-type frame is assumed to hold coordinates.
`PruneRaw` deletes any of the raw rows that are older than the raw retention, as a
prune that fails between two batches may; `archived` is history and keeps them, so
that "stored" can be said of a row that is gone. What the pruning races with in the
job queue is in `Workers`.

### Cdc

A WAL position is the index of a record, and the length of a message is the
number of record boundaries its text spans: `handleCopyData` adds that length to
a WAL position, and `Reach` and `Bracket` bound it. Changes of several
transactions interleave in the WAL and are sent in commit order, as Postgres
does. `Progress` is the assignment to `lastLSN`; `SendStandby` the update, from
the timer or from a keepalive. Postgres ignores position 0, starts a session at
the slot's position and skips transactions whose commit record starts before it;
whether a slot may move backwards differs between minor versions, so both are
allowed. The sink may fail, as its interface allows (`LogSink` never does).
Delays are left out.

### Notify

`wire` is what Postgres sent to the connection and the listener has not read.
A connection that dies leaves a prefix of it readable. `Push` is the blocking
send on the output channel. The router's position is `select`, an attempt, a
backoff, or the dead-letter insert. An attempt of a fallible adapter may fail
with or without the sink having taken the event. An attempt that is under way
when the context is cancelled and ends well is the same behaviour as one that
ended just before. Parsing and the MMSI filter are left out, and pacing, which
is a delay. A notification raised while no session listens is lost, in the model
as in the code.

### Hub and Service

A frame is its place in the broadcasts: flush number and index in it. The mutex
of the hub is held from `BeginBroadcast` to `EndBroadcast`, and for one step by
`Add`, `Remove` and `Shutdown`, which therefore wait for `broadcast = "idle"`.
`Visit` loads a subscriber's filter, an atomic pointer that the read loop may
swap (`Subscribe`) at any other step; `Push` is the `select` with a `default`:
a full queue drops the frame for that subscriber. `conn` is where the write
loop of `Serve` is, and `reading` whether its read loop runs. `asked`, `since`,
`sent` and `missed` are history.

`Service` adds the errgroup (`Return`: the first error is recorded and cancels
the shared context), the server's goroutine, whose shutdown signals the hub
before `srv.Shutdown`, the writer, which sees its context only between flushes,
and components that return when cancelled (`Obedient`) or do not. `supervise`
waits for the group or the signal, then for the group or the grace; `classify`
gives the exit code. Its return is not the exit: `run` deferred `pool.Close`, which
waits for every acquired connection (`closing`, `PoolCloses`). `held` says which
components have one, `Acquire` and `Release` are theirs, and one that obeys its
context returns only without. Plain HTTP requests are left out: `srv.Shutdown` ends well,
or at its deadline.

### Detectors

A position is a vessel, a tick and a place; the constants say in which port a
place lies, whether vessels there are slow and whether it is inside the fence.
`Report` stores a position up to `delay` ticks after it was transmitted. Every
scan is the query of its worker as a set expression over its lookback, then the
upsert with its key; the common table expressions of the SQL keep their names
in the comments. `ScanGaps` is two statements, in the order of `GapWork`, with
reports in between. `ScanHoles` inserts one job per hole under River's
uniqueness by arguments, `Clean` deletes completed rows. Speeds, distances and
counts of the rows are left out. A cast names the vessels, places, delay and
scans of a behaviour; scans that read nothing in common are in different casts.
The transfer scan takes of each vessel the newest slow report of each bucket
(`Snapshot`) and pairs the reports of a bucket, whose times differ (`PairTimes`);
`MeetBucket` is the width of a bucket in ticks, and the window cuts single reports.

### Workers

A row of `river_job` has a kind, an argument, the period of its insert, a state
and an attempt count. `Insert` is River's, with the uniqueness options that
`queue.go` gives it: per period for hourly and slower scans, while in flight for
faster ones, by arguments for enrichment, none for the scan a refresh queues.
`at` is the statement an attempt is at, one action per statement. `Fail` is a
failed statement, or any statement under a cancelled context: `Start(ctx)` hands
the context to the jobs, so that a cancellation fails them at once. A process
that stops or crashes leaves its rows `running` until River's `Rescue`. What
River does is modelled from how the code configures it. `Attempts` is how often a
job is tried, three times for an enrichment and River's default for the others.
Periods pass at any time, also while the process is down, so that the first prune
after a long stop may take what a waiting job was to read; that job then finds
nothing and is complete. A sanctions list is a
version; which vessels it matches is one SQL statement and left out.

### NaiveQueue and JobQueue

`Draw`, `Inserted` and `InsertFails` are `Enqueue`: ids come in the order of the
sequence, rows appear in the order of commits. `Dequeue` is one action per step
of its transaction. The SELECT takes a snapshot (`cursor`) and walks it in the
order of ids; `StepOver` skips a row that is locked, or gone since the snapshot.
The lock belongs to the session, the handler to the worker: `SessionLost` frees
the row while the handler runs on. `JobQueue` knows jobs, their holders and
their being finished, and `Queue` maps the first to the second: the holder of a
job is the session that has its row locked.

### Names

`Resolve` is `Exact`, `Trigram`, `AddAlias`, `Create` and `QueueReview`, each its
own statement outside any transaction, by concurrent callers. How alike two
names are is a constant table in percent; `matchThreshold` and `reviewThreshold`
are the code's. `SetParent` runs the trigger's walk on what is committed,
`CommitParent` makes the change visible, so that two updates may each miss the
other. `AncestorChain` and `Group` are the two recursive queries with their depth
limit, as recursive functions. The destination scan takes its rows (`StartScan`),
looks each word up (`LookUp`, with `Locode`, `Nearest`, `Subsequence` and
`consider`) and upserts, while `Seed` changes the gazetteer. Tokenisation is a
constant table.

## 3. What the runs check

| run | instance | properties |
|---|---|---|
| `ingest_flush` | 4 messages of 2 vessels, one a repeat, batch 2, channel 2, 1 fault, 1 stop | `PublishedIsCurrent`, `PositionsFollowArchive`, `NoSilentLoss`, `OriginalKept`, `QueuedIsStored`, `ShutdownCompletes` |
| `ingest_restart` | 3 messages of 2 vessels, one without a time, clock to 2, retentions 1, 1 fault, 1 stop, 1 database crash | `PublishedIsStored`, `EnqueuedAtMostOnce`, `WindowCoversRecent`, the refinement `MapSpec`, `RebuildCoversPositions` |
| `cdc` | 2 transactions, 4 WAL records, lengths 1 and 2, 1 fault, 1 stop | `LossIsOvershoot`, `ProgressIsCovered`, `CommittedIsHandled`, `SlotAdvances` |
| `notify` | 3 alerts, 2 channels, 2 adapters, capacity 1, 3 attempts, 1 disconnect, 1 fault, 1 stop | `HandledIsSettled`, `HeardIsHandled`, `ShutdownCompletes` |
| `service` | 3 casts: two clients of a service that runs, one of a service that stops, two other components; 2 flushes, queue 1, 2 subscribes, 1 break | `FramesAreWanted`, `FramesInOrder`, `FramesReachSubscribers`, `ErrorIsReported`, `BroadcastEnds`, `ConnectionsClose`, `ExitsAfterSignal` |
| `detectors` | 6 casts, one or two vessels over 5 ticks (4 for two that stay slow, 7 for holes), buckets of 2 ticks, reports up to one tick late in three of them | `CallsAreStays`, `GapsMatchSilence`, `CrossingsMatch`, `TransfersMatchPairs`, `HolesAskedOnce` |
| `workers` | 5 casts: failing sweeps; refresh and match within a period, with a fault, and over two; an enrichment that fails until it is discarded; enrichment with pruning over 3 periods; up to 4 rows, 2 workers, 3 attempts | `ScansRecur`, `NewListIsMatched`, `SightedIsEnriched` |
| `naive` | 3 workers, 2 jobs, 2 faults | `HandlersExclude`, `HandledOnceMore`, the refinement `QueueSpec` |
| `names` | 3 casts: resolutions with a fault, resolutions with changes of owner, destinations with seedings and a fault; 5 names, 2 callers, 2 ports | `ForksAreReviewed`, `OwnershipIsTree`, `GroupsMatchChains`, `HintsAreBest` |

All of these hold. Three more runs each state what a comment or a document says
and find a behaviour of the code that contradicts it:

- `ingest_shutdown` (`ShutdownKeepsBatched`): a batch that is being flushed when
  the context is cancelled, or that the loop begins to flush after it, is lost
  (`Run`: "in-flight work is not lost").
- `cdc_reconnect` (`NothingSkipped`): the acknowledged position may lie beyond
  transactions that were not received, which a reconnect then skips
  ("Disconnect/reconnect does not lose events").
- `detectors_parted` (`PartedIsClosed`): a transfer that outlasts the lookback
  gets a second row and its first one stays open; so does the row of a pair that
  parts when no scan runs before the window cuts its meeting, which is what the run
  shows (`sts.go`: "closing them once the vessels part").

The positive properties say how far each promise does hold: `OriginalKept`
while no flush failed or was cut short, `NoSilentLoss` always, `LossIsOvershoot`
pins every missed change on the length added to a position, `HandledIsSettled`
holds until a stop or a failed insert, `TransfersMatchPairs` for rows whose first
bucket is in the window as a whole and whose meeting is still read to last the
minimum, `RebuildCoversPositions` for vessels heard of within the raw retention,
`SightedIsEnriched` unless the attempts are used up or the report grows too old,
`ExitsAfterSignal` unless a component that ignores the cancellation keeps a
connection, `ForksAreReviewed` and `OwnershipIsTree` except among callers and
updates that overlapped.

These premises are also where the code is known to fall short of what one might
expect of it. A reader of the models meets, beside the three above:

- two copies of a broadcast in one batch are both untagged: the window is asked
  before the batch is recorded (`Flagged`);
- a row written between a database crash and the restart keeps the cache from
  being rebuilt, as a cache with any row is taken as warm (`Rebuilt`);
- a vessel silent for longer than the raw retention keeps its stored positions, but
  after a database crash the rebuilt cache has no entry for it, as the rebuild reads
  raw rows, which `retention.go` prunes since "nothing reads it beyond a day back";
- the forced exit of `supervise` is not one while a component that did not stop
  holds a pooled connection: the deferred `pool.Close` waits for it;
- a transfer row stays open when the window keeps only one vessel's report of its
  first bucket, which moves the start, or when a later slow report of the last
  bucket replaces the one that made up the minimum (`Standing`);
- a flush that fails after the vessel upsert leaves its new vessels without
  their enrichment job for good (`FirstSeen` is empty the next time);
- the dead letter of an event whose attempts all failed is lost when the context
  is cancelled before the insert (`record` in `Notify`);
- a sweep left `running` by a process that is gone blocks the ticks that are
  unique while in flight until River rescues it, so the scan that `RunOnStart`
  asks for does not run at startup; and jobs in flight at a cancellation fail at
  once, as it is their context that is cancelled, whatever window `Stop` has;
- two overlapping changes of a parent may each pass the trigger and close a
  cycle (`crossed`); a later walk of the trigger through it does not end.

**Bounds.** Two messages per batch and four messages give two full flushes, or
several partial ones with the ticker, and let a repeat land in the same batch, in
the next one, or in a batch after a failed one. One fault and one stop meet
every statement; two of each only repeat such a behaviour, because a failed flush
leaves nothing in the writer. A clock to 2 with retentions 1 passes the boundary of
the window's and of the raw rows'. Four WAL records hold two interleaved transactions, one of which has
a change of a streamed table; lengths 1 and 2 end at, and beyond, a neighbouring
record. Capacity 1 with three alerts fills the output channel while the listener
holds one and the router another. Queue 1 with a flush of two fixes fills a
subscriber's queue within one broadcast, and two flushes with two subscribes let
a filter change before, during and after each. Five ticks hold a stay, its end
and the next arrival, or a meeting longer than the minimum inside, and beyond, a
lookback of four; with buckets of two ticks the window cuts every other bucket in
half, and the two reports of a bucket may differ in place; seven ticks pass the time at which a completed backfill is
forgotten. Two faults and three attempts let a sweep be given up when a stop
takes an attempt as well, and an enrichment be discarded; River's default of 25
attempts is cut to 3. Three periods with a retention of one let a report grow old
while its job waits, fails, or lies orphaned by a stop. Three workers on two jobs are one more than there are
locks; two faults lose two sessions. Three resolutions of five names reach the
fold, the alias, the grey zone and a fork. Casts keep apart what shares no state,
so that each part gets its own bounds; every behaviour of a run has one of them.

Deadlock is checked in the ingest, naive, workers and detectors runs. It is not in
`cdc` (CDC disabled for want of a slot, or nothing to stream), `notify` (no alert
left to raise), `service` (the process has exited) and `names` (no name or report
left to resolve), where the system rightly waits or has ended.

**Fairness.** `Ingest`: weak fairness of the writer goroutine; each of its
statements is bounded by a context, and the ticker always fires. No fairness of
the feed, of faults, of a stop or of a restart. `Cdc`: weak fairness of
connecting (the reconnect loop never gives up), of receiving, and of standby
updates (sent at least every `standbyInterval`); none of transactions or
restarts. `Notify`: weak fairness of the two goroutines; an attempt ends within
the client's timeout, a backoff with its timer, a connect or an insert with its
context. `Service`: weak fairness of a broadcast once begun, of each write loop,
whose writes have a deadline, and of the server seeing its context; none of
clients, failures or signals. A component that obeys its context gives its connection
back, as do the server and the writer: their statements end with the context or at a
timeout. Of the supervisor, fairness is a premise of
`ExitsAfterSignal` alone. `Workers`: weak fairness of the periodic tick, of the
statements and completion of a claimed row (each kind has a timeout), and of
River's backoff, rescue and cleaning; strong fairness of claiming, as rows are
claimed oldest first and the worker slots are taken and freed again and again.
The other modules state safety only.

## 4. What is proved

Every invariant that a run checks, and both refinements, are theorems. Eight
modules hold them, for any values of the constants that satisfy the named
assumptions of the modules they are about (`MessagesAssumption`,
`BoundsAssumption`, `CdcAssumption`, `NotifyAssumption`, `NaiveQueueAssumption`,
`HubAssumption`, `ServiceAssumption`, `NamesAssumption`, `DetectorsAssumption`):
that bounds are natural numbers, that a static message has no coordinates, that
batch and channel hold at least one message, and the like. Two say more.
`NamesAssumption` says of `pg_trgm` that similarity is symmetric and that names
which differ only in case are fully alike, as it compares in lower case; a name
without a letter or digit, which is like nothing, is left out.
`DetectorsAssumption` says that River keeps completed jobs at least as long as the
backfill looks back (both are 24 hours, the former by River's default), and that a
bucket of the transfer scan, five minutes, is no wider than the minimum of half an
hour.

The ingest path:

- **Types** (`TypesHold`, `CdcTypes`, `NotifyTypes`; in `NaiveProofs` a part of
  `ClaimsAlways`): one step per action.
- **`TablesConsistent`** is the inductive invariant of the tables. The safety
  properties are not inductive: that a published message has its rows follows
  only if each statement behind the flush is known to have left its rows
  (`FlushLeavesRows`), and that no vessel gets a second job only if a vessel
  waiting for its job is known to have none (`FreshHasNoJob`). With these two,
  the three properties carry each other. `ConsistencyHolds` proves it,
  `PublishedIsStoredHolds`, `EnqueuedAtMostOnceHolds` and
  `PositionsFollowArchiveHolds` follow.
- **`NoSilentLossHolds`**: the counters account for every message taken, through
  every failure.
- **`OriginalKeptHolds`**: between recording the fingerprints and copying the
  rows, a recorded fingerprint may have no original yet, only a message about to
  be copied (`Originals`). A stop in between is what breaks the promise
  otherwise, and why it is a premise.
- **`WindowCoversRecentHolds`**: a window entry is at least as new as the flush
  that made it, so that a purge spares it as long as that flush's rows are
  recent; a flush whose duplicate check was cancelled has no entries, but cannot
  commit either (`Remembered`).
- **`RebuildCoversPositionsHolds`**: every position has the row it was derived from
  among the rows ever archived; what of these is gone from `raw_ais_messages` is older
  than the raw retention (`PrunedAreOld`), as rows keep their time of receipt and the
  clock only moves on. So the rebuild still reads the row of every position within it.
- **`PublishedIsCurrentHolds`**: the cache is never behind the feed. A batch may
  hold several fixes of a vessel, and the upsert takes the one no other beats.
  That there is one needs that `Beating`, the fixes that beat a given one, has a
  smallest member among finitely many, which comes from the well-foundedness of
  inclusion. The upsert leaves the entry at least that new, the two statements
  behind it find it so (`StepCoversBatch`), and from then on it only moves
  forward, until a crash of Postgres empties the unlogged table.
- **`IngestImplementsLiveMap`**: every step of `Ingest` is a step of `LiveMap` or
  a stutter, with the archive read off `raw_ais_messages`, the cache off
  `vessel_last_position` and the feed off what was broadcast. The two steps that
  matter: an upsert moves an entry only to a stored fix that is not older, and a
  rebuild fills an empty cache from the archive.

The change stream, the alerts and the naive queue:

- **`ProgressIsCovered`** is the inductive invariant of the consumer: the slot's
  position, `lastLSN` and the session's place are each covered by what the sink
  accepted, up to overshot commits. It needs that a transaction writes nothing
  after its commit. `LossIsOvershootHolds` follows.
- **`HandledIsSettledHolds`**: while an event is being handled, the adapters
  before the one at hand are settled with it (`Served`), and the router leaves
  an adapter only when it took the event, does not want it, or the dead letter
  was written, unless a fault or a stop is on record (`Cuts`). That `Offer` skips
  nobody who wants the event needs the least element of a set of numbers, which
  comes from the well-foundedness of `<`.
- **`Claims`** is the inductive invariant of the naive queue: ids are drawn once,
  only rows that are there are locked, each by one session, and a worker past
  its handler has a job that was handled. `HandlersExcludeHolds` and
  **`NaiveQueueImplementsJobQueue`** follow: a `Lock` is a `Take`, a lost session
  or a return a `GiveUp`, a `Commit` a `Finish`, and a handler that outlives its
  session a `Handle` of a job somebody else may hold.
- **`HandledOnceMoreHolds`** counts: every handler that ended but the last was
  paid for by a fault (`Paid`). A session lost under a running handler is a fault
  whose repeat is yet to come, so the handlers that outlived their sessions are
  counted too, as the cardinality of a set that stays finite.

The service:

- **`FramesAreWantedHolds`**, **`FramesInOrderHolds`**: neither is inductive alone.
  The copy of the filter the broadcaster works with must be known to be of a box
  its subscriber asked for (`Asked`), also after the subscriber swapped it, and the
  frames of a connection must be known to lie before the one the broadcaster is at
  (`Behind`). Both need that a subscriber leaves between broadcasts only.
- **`FramesReachSubscribersHolds`** is the converse, and needs what a broadcast
  has offered so far: every wanted fix before the place it is at was queued, sent
  or dropped (`Reached`). For that the copy of the filter must be the filter itself
  when it was there before the broadcast (`Kept`), since a filter set later makes
  no promise for the broadcast under way.
- **`ErrorIsReportedHolds`**: nothing is recorded before the context is cancelled
  except by the error that cancels it, and the code that `supervise` returned with is
  the one kept while `pool.Close` waits (`Recorded`).

Operators and destinations:

- **`ForksAreReviewedHolds`**: a caller about to create has chosen its candidate
  among the operators it saw, the nearest of them, and that one was too far to take
  the name (`Chosen`). An operator it did not see makes the new one unsure; one it
  saw is in the queue, or is about to be put there.
- **`OwnershipIsTreeHolds`**: every chain of owners ends, and an update that waits
  to commit leads to an owner whose own chain avoids the row it moves (`Tree`); while
  no two overlap, nothing commits between the trigger's look and its own. The
  trigger walks until the chain ends; model and property look as many links up
  as there are operators. That is the same because a chain that ends visits nobody
  twice, which takes induction over its length and counting the operators on it.
- **`GroupsMatchChainsHolds`** holds in every state, cycles included: an
  operator's owner at depth d + 1 is the owner at depth d of its owner, so the
  rows of each round of the query down are those whose chain passes the group.
- **`HintsAreBestHolds`**: what a scan holds for a pair is the best that the words
  looked up so far yield, unless the gazetteer changed under it (`Found`), in which
  case what it writes is not counted (`HintsCount`). The tie-breaks of the three
  lookups need the least of a finite set in a lexicographic order.

Detectors. Their lookbacks, delays and minimums are any numbers and a vessel may
have any number of positions, so that the newest of a set has to be shown to exist.

- **`HolesAskedOnceHolds`**: a job completes after its hole began and is kept for
  longer than the lookback, so a hole is out of sight before its job is forgotten
  (`AskedFor`).
- **`GapsMatchSilenceHolds`**: after the first statement no open gap is contradicted
  by a position, except of those who reported since (`Resolved`), and the second
  opens one for whoever is silent at sea (`Detected`).
- **`CrossingsMatchHolds`**: two positions that make an unrecorded crossing were
  complete only after the last scan, hence will be seen by one that still has both in
  its lookback (`Noted`).
- **`TransfersMatchPairsHolds`**: a row is written when both vessels have reported in
  a later bucket than its first, since the minimum is no shorter than a bucket; in
  order, no report enters that bucket any more, and its points stay what they are
  (`PointsStay`). Points near each other before the start are out of the window at
  least by half (`Meet`), and stay so. As the window keeps the newest point of
  whatever it leaves of a bucket (`SlowRecentIs`), a scan whose window holds the first
  bucket as a whole finds that start and with it the row's key. Without this a scan
  could add a second row, which is what happens once the window cuts that bucket.
- **`CallsAreStaysHolds`**: the window of a call scan reaches back to the vessel's
  open call. An open call begins where its stay does, as far as any scan to come
  can tell (`Stays`, `Apart`), and the window always holds that beginning, so the
  next scan finds it under the same key and closes it with the departure or leaves
  it open as the newest position says.

Only model-checked: everything temporal, as liveness under fairness and `ENABLED`
are out of the prover's reach. That includes all three properties of `Workers`,
which are about work that must get done.

## 5. Not modelled

- **HTTP API, search, similarity, store**: read-only queries and their encoding.
  They change no state; the two recursive ownership queries are in `Names`, the
  server's shutdown in `Service`.
- **Embeddings and anomaly scores**: numeric features and distances over rows,
  recomputed as a whole by every run; no state carries over.
- **Sanctions matching, list parsing, the polygons of ports and zones**: one-shot
  computations by SQL or over files.
- **The AISStream connection**: a frame not received is one never emitted, and
  nothing else depends on the connection. Its backoff, that of `Cdc` and the
  pacing of adapters are delays.
- **Seeding a port file that names one port twice** fails as a whole statement
  and changes nothing, so it is the same as not seeding.
- **Configuration, logging, pool, metrics, migrations runner, test support, web
  interface**: no protocol state.

Two hazards have no property, and `PROJECT.json` says why at each: the reconnect
backoff of CDC that is never reset (a delay), and a notification raised while nobody
listens.

## 6. What could follow

1. `Detectors` composed with `Notify`, the alerts raised being those of its rows.
2. The safety half of what `Workers` promises: which rows River's uniqueness
   excludes, as an inductive invariant.
3. The duration bound after which `WindowCoversRecent` lets a repeat through.
