------------------------------- MODULE Ingest -------------------------------
(***************************************************************************)
(* The ingest path of the tracker: the AISStream client's emit into the    *)
(* bounded channel, the batched writer with every statement of a flush,    *)
(* the deduplication window and its housekeeping, the five tables and the  *)
(* job queue a flush touches, the pruning of raw messages, shutdown,       *)
(* process crashes and restarts, and crashes of Postgres, which truncate   *)
(* the UNLOGGED tables.                                                    *)
(*                                                                         *)
(* Abstractions.                                                           *)
(*  - A message is a delivery: a record whose seq tells two deliveries of  *)
(*    the same broadcast apart.  Names, motion fields and payload bytes    *)
(*    are left out; coordinates are one of a few places.                   *)
(*  - A frame the client never receives, because it was disconnected, is   *)
(*    one that stays in unsent.                                            *)
(*  - Each database statement is one step with three outcomes: it succeeds,*)
(*    it fails, or it fails at the client although Postgres committed it.  *)
(*  - The rate counters of all sources are one number.                     *)
(*  - archived, a history variable no action reads, keeps the rows pruned  *)
(*    from raw, for properties about what was once stored.                 *)
(*                                                                         *)
(* MaxTime, MaxFaults, MaxStops and MaxDbCrashes bound the model.          *)
(***************************************************************************)
EXTENDS Integers, FiniteSets, Sequences

CONSTANTS
  Messages,     \* the deliveries the feed can make
  Vessels,      \* MMSIs
  Places,       \* coordinates
  NoPlace,      \* a message without coordinates
  NoMessage,    \* stands in the cache for a missing row
  BatchSize,    \* Config.BatchSize
  ChanSize,     \* capacity of the channel between client and writer
  Retention,    \* age beyond which a fingerprint is purged
  RawRetention, \* age beyond which a raw message is pruned
  MaxTime, MaxFaults, MaxStops, MaxDbCrashes

NoTime == -1    \* HasReported is false

MessageType ==
  [seq : Nat, mmsi : Vessels, type : {"position", "static"},
   reported : Nat \cup {NoTime}, place : Places \cup {NoPlace}]

\* decode fills the coordinates of position-type messages only.
ASSUME MessagesAssumption ==
  /\ Messages \subseteq MessageType
  /\ \A m \in Messages : m.type = "static" => m.place = NoPlace
  /\ NoPlace \notin Places

ASSUME BoundsAssumption ==
  /\ BatchSize \in Nat \ {0} /\ ChanSize \in Nat \ {0} /\ Retention \in Nat
  /\ RawRetention \in Nat
  /\ MaxTime \in Nat /\ MaxFaults \in Nat
  /\ MaxStops \in Nat /\ MaxDbCrashes \in Nat

HasPosition(m) == m.place # NoPlace

\* The tuple whose SHA-256 identifies a broadcast; the delivery is not in it.
Fingerprint(m) == <<m.mmsi, m.type, m.reported, m.place>>
Fingerprints == {Fingerprint(m) : m \in Messages}

\* A position as it is stored: a message without a timestamp takes the time
\* its flush began.
Fix(m, at) ==
  [msg |-> m, reported |-> IF m.reported = NoTime THEN at ELSE m.reported,
   received |-> at]

FixType == [msg : Messages, reported : Nat, received : Nat]
NoFix == [msg |-> NoMessage, reported |-> -1, received |-> -1]

-----------------------------------------------------------------------------
VARIABLES
  \* the client and the channel
  unsent,       \* deliveries the feed has not made
  chan,         \* FIFO of accepted messages
  dropped,      \* messages emit dropped because chan was full
  \* the writer goroutine
  pc,           \* "select", the statement it is about to run, or not running
  ctx,          \* the run context: live, cancelled during a statement, cancelled
  final,        \* the flush in progress is finalFlush's, with its own context
  buf,          \* the batch
  flushAt,      \* now in flush
  flags,        \* messages of the batch flagged as duplicates
  fresh,        \* MMSIs upsertVessels inserted
  batched, rowsWritten, flushErrors,    \* counters of Metrics
  \* Postgres
  window,       \* ingest_dedup_window (UNLOGGED)
  raw,          \* raw_ais_messages
  positions,    \* positions
  vessels,      \* MMSIs with a row in vessels
  last,         \* vessel_last_position (UNLOGGED), NoFix for a missing row
  jobs,         \* enrichment jobs inserted per MMSI
  rated,        \* source_rate_counters (UNLOGGED), all sources together
  \* history
  archived,     \* rows raw_ais_messages ever had
  \* outside
  feed,         \* updates handed to the broadcaster
  now, faults, stops, dbCrashes

client == <<unsent, chan, dropped>>
writer == <<pc, ctx, final, buf, flushAt, flags, fresh,
            batched, rowsWritten, flushErrors>>
tables == <<window, raw, archived, positions, vessels, last, jobs, rated>>
vars == <<client, writer, tables, feed, now, faults, stops, dbCrashes>>

counters == <<batched, rowsWritten, flushErrors>>

EmptyCache == [v \in Vessels |-> NoFix]

DbSteps == {"mark", "raw", "positions", "vessels", "last", "enqueue", "publish"}
NotRunning == {"stopped", "down"}

ClientTypes ==
  /\ unsent \subseteq Messages /\ dropped \subseteq Messages
  /\ chan \in Seq(Messages) /\ Len(chan) <= ChanSize

CounterTypes == batched \in Nat /\ rowsWritten \in Nat /\ flushErrors \in Nat

WriterTypes ==
  /\ pc \in DbSteps \cup NotRunning \cup {"select"}
  /\ ctx \in {"live", "cancelling", "cancelled"}
  /\ final \in BOOLEAN
  /\ buf \in Seq(Messages) /\ Len(buf) <= BatchSize
  /\ flushAt \in Nat
  /\ flags \subseteq Messages
  /\ fresh \subseteq Vessels

TableTypes ==
  /\ window \subseteq [fp : Fingerprints, seen : Nat]
  /\ raw \subseteq archived
  /\ archived \subseteq [msg : Messages, received : Nat, dup : BOOLEAN]
  /\ positions \subseteq FixType
  /\ vessels \subseteq Vessels
  /\ last \in [Vessels -> FixType \cup {NoFix}]
  /\ jobs \in [Vessels -> Nat]
  /\ rated \in Nat

OutsideTypes ==
  /\ feed \subseteq [msg : Messages, at : Nat]
  /\ now \in Nat /\ faults \in Nat /\ stops \in Nat /\ dbCrashes \in Nat

TypeOK == ClientTypes /\ CounterTypes /\ WriterTypes /\ TableTypes /\ OutsideTypes

\* The process is not running and the database is empty.
Init ==
  /\ unsent = Messages /\ chan = <<>> /\ dropped = {}
  /\ pc = "down" /\ ctx = "live" /\ final = FALSE
  /\ buf = <<>> /\ flushAt = 0 /\ flags = {} /\ fresh = {}
  /\ batched = 0 /\ rowsWritten = 0 /\ flushErrors = 0
  /\ window = {} /\ raw = {} /\ archived = {} /\ positions = {} /\ vessels = {}
  /\ last = EmptyCache /\ jobs = [v \in Vessels |-> 0] /\ rated = 0
  /\ feed = {}
  /\ now = 0 /\ faults = 0 /\ stops = 0 /\ dbCrashes = 0

-----------------------------------------------------------------------------
(* The batch being flushed.                                                *)

Batch == {buf[i] : i \in DOMAIN buf}

\* Mutant: flagged duplicates are not left out of the derived tables.
KeptAll == Batch

Kept == Batch \ flags
Located == {m \in Kept : HasPosition(m)}

RawRows ==
  {[msg |-> m, received |-> flushAt, dup |-> m \in flags] : m \in Batch}
BatchFixes == {Fix(m, flushAt) : m \in Located}
Sightings == {m.mmsi : m \in Kept}

\* Mutant: the last one appended wins, whatever its time.
WinsByArrival(i) ==
  /\ buf[i] \in Located
  /\ \A j \in DOMAIN buf :
       buf[j] \in Located /\ buf[j].mmsi = buf[i].mmsi => j <= i

\* The vessel's fix that wins within the batch: the newest, and of those the
\* last one appended.
Wins(i) ==
  /\ buf[i] \in Located
  /\ \A j \in DOMAIN buf :
       LET f == Fix(buf[i], flushAt)
           g == Fix(buf[j], flushAt)
       IN  buf[j] \in Located /\ buf[j].mmsi = buf[i].mmsi
             => g.reported < f.reported \/ (g.reported = f.reported /\ j <= i)

Winners == {Fix(buf[i], flushAt) : i \in {j \in DOMAIN buf : Wins(j)}}

\* Mutant: the upsert has no conflict condition.
NewerAlways(v) == {f \in Winners : f.msg.mmsi = v}

\* Rows of the upsert that pass its conflict condition.
Newer(v) == {f \in Winners : f.msg.mmsi = v /\ f.reported >= last[v].reported}

-----------------------------------------------------------------------------
(* Outcomes of a statement.                                                *)

\* finalFlush runs under a context of its own.
Live == final \/ ctx = "live"

Succeeds == Live /\ UNCHANGED <<ctx, faults>>

\* A statement fails because of the database, or because the run context is
\* cancelled: the one in flight may still have committed, a later one has not.
Fails ==
  \/ Live /\ faults < MaxFaults /\ faults' = faults + 1 /\ UNCHANGED ctx
  \/ ~Live /\ ctx' = "cancelled" /\ UNCHANGED faults
MayCommit == Live \/ ctx = "cancelling"

\* What a failed statement leaves of the table old it would have made new.
Left(old, new) == IF MayCommit THEN {old, new} ELSE {old}

\* Back to the select loop, or out of it after the final flush.
EndBatch ==
  /\ pc' = IF final THEN "stopped" ELSE "select"
  /\ final' = FALSE
  /\ buf' = <<>> /\ flushAt' = 0 /\ flags' = {} /\ fresh' = {}

\* Mutant: an error of a statement is logged and the flush goes on.
AbandonNothing ==
  /\ pc' = CASE pc = "raw" -> "positions" [] pc = "positions" -> "vessels"
             [] pc = "vessels" -> "last" [] OTHER -> "enqueue"
  /\ UNCHANGED <<final, buf, flushAt, flags, fresh, counters>>

\* Mutant: a failed flush is not counted.
AbandonQuietly == EndBatch /\ UNCHANGED counters

\* flush returns an error: it is counted and the batch is discarded.
Abandon ==
  /\ EndBatch
  /\ flushErrors' = flushErrors + 1
  /\ UNCHANGED <<batched, rowsWritten>>

Advance(next) ==
  /\ pc' = next
  /\ UNCHANGED <<final, buf, flushAt, counters>>

-----------------------------------------------------------------------------
(* The client.                                                             *)

\* A frame is decoded and emitted without blocking.
Emit(m) ==
  /\ m \in unsent
  /\ pc # "down" /\ ctx = "live"
  /\ unsent' = unsent \ {m}
  /\ IF Len(chan) < ChanSize
       THEN chan' = Append(chan, m) /\ UNCHANGED dropped
       ELSE dropped' = dropped \cup {m} /\ UNCHANGED chan
  /\ UNCHANGED <<writer, tables, feed, now, faults, stops, dbCrashes>>

-----------------------------------------------------------------------------
(* The writer's select loop.  Every ready case may be chosen.              *)

BeginFlush == pc' = "mark" /\ flushAt' = now

Full(b) == Len(b) >= BatchSize

Take ==
  /\ pc = "select" /\ chan # <<>>
  /\ chan' = Tail(chan)
  /\ buf' = Append(buf, Head(chan))
  /\ batched' = batched + 1
  /\ UNCHANGED <<rowsWritten, flushErrors>>
  /\ IF Full(buf') THEN BeginFlush ELSE UNCHANGED <<pc, flushAt>>
  /\ UNCHANGED <<unsent, dropped, ctx, final, flags, fresh>>
  /\ UNCHANGED <<tables, feed, now, faults, stops, dbCrashes>>

\* Mutant: a batch is flushed only when it is full.
TickerIdle == pc = "select" /\ UNCHANGED vars

\* The ticker; with an empty batch flush does nothing.
TickerFires ==
  /\ pc = "select"
  /\ IF buf = <<>> THEN UNCHANGED <<pc, flushAt>> ELSE BeginFlush
  /\ UNCHANGED <<client, ctx, final, buf, flags, fresh, counters>>
  /\ UNCHANGED <<tables, feed, now, faults, stops, dbCrashes>>

\* Mutant: the loop does not watch the context.
ContextIgnored == FALSE

ContextDone ==
  /\ pc = "select" /\ ctx # "live"
  /\ IF buf = <<>>
       THEN pc' = "stopped" /\ UNCHANGED <<final, flushAt>>
       ELSE final' = TRUE /\ BeginFlush
  /\ UNCHANGED <<client, ctx, buf, flags, fresh, counters>>
  /\ UNCHANGED <<tables, feed, now, faults, stops, dbCrashes>>

-----------------------------------------------------------------------------
(* The statements of a flush, in order.                                    *)

Known == {w.fp : w \in window}
Recorded ==
  window \cup {[fp |-> f, seen |-> now] : f \in {Fingerprint(m) : m \in Batch} \ Known}

\* Mutant: copies within a batch are all flagged.
FlaggedWithinBatch ==
  {m \in Batch : \/ Fingerprint(m) \in Known
                 \/ \E n \in Batch \ {m} : Fingerprint(n) = Fingerprint(m)}

Flagged == {m \in Batch : Fingerprint(m) \in Known}

\* A failed duplicate check flags nothing and does not fail the flush.
MarkDuplicates ==
  /\ pc = "mark"
  /\ \/ /\ Succeeds
        /\ window' = Recorded
        /\ flags' = Flagged
     \/ /\ Fails
        /\ window' \in Left(window, Recorded)
        /\ flags' = {}
  /\ Advance("raw")
  /\ UNCHANGED <<client, fresh, raw, archived, positions, vessels, last, jobs, rated>>
  /\ UNCHANGED <<feed, now, stops, dbCrashes>>

CopyRaw ==
  /\ pc = "raw"
  /\ \/ /\ Succeeds
        /\ raw' = raw \cup RawRows
        /\ Advance("positions") /\ UNCHANGED <<flags, fresh>>
     \/ /\ Fails
        /\ raw' \in Left(raw, raw \cup RawRows)
        /\ Abandon
  /\ archived' = archived \cup raw'
  /\ UNCHANGED <<client, window, positions, vessels, last, jobs, rated>>
  /\ UNCHANGED <<feed, now, stops, dbCrashes>>

\* A statement without rows is not sent, so it cannot fail.
CopyPositions ==
  /\ pc = "positions"
  /\ \/ /\ IF BatchFixes = {} THEN UNCHANGED <<ctx, faults>> ELSE Succeeds
        /\ positions' = positions \cup BatchFixes
        /\ Advance("vessels") /\ UNCHANGED <<flags, fresh>>
     \/ /\ BatchFixes # {} /\ Fails
        /\ positions' \in Left(positions, positions \cup BatchFixes)
        /\ Abandon
  /\ UNCHANGED <<client, window, raw, archived, vessels, last, jobs, rated>>
  /\ UNCHANGED <<feed, now, stops, dbCrashes>>

\* Mutant: the upsert returns the rows it updated too.
FirstSeenAll == Sightings

FirstSeen == Sightings \ vessels

UpsertVessels ==
  /\ pc = "vessels"
  /\ \/ /\ IF Sightings = {} THEN UNCHANGED <<ctx, faults>> ELSE Succeeds
        /\ vessels' = vessels \cup Sightings
        /\ fresh' = FirstSeen
        /\ Advance("last") /\ UNCHANGED flags
     \/ /\ Sightings # {} /\ Fails
        /\ vessels' \in Left(vessels, vessels \cup Sightings)
        /\ Abandon
  /\ UNCHANGED <<client, window, raw, archived, positions, last, jobs, rated>>
  /\ UNCHANGED <<feed, now, stops, dbCrashes>>

Upserted ==
  [v \in Vessels |->
     IF Newer(v) = {} THEN last[v] ELSE CHOOSE f \in Newer(v) : TRUE]

UpsertLastPositions ==
  /\ pc = "last"
  /\ \/ /\ IF Located = {} THEN UNCHANGED <<ctx, faults>> ELSE Succeeds
        /\ last' = Upserted
        /\ Advance("enqueue") /\ UNCHANGED <<flags, fresh>>
     \/ /\ Located # {} /\ Fails
        /\ last' \in Left(last, Upserted)
        /\ Abandon
  /\ UNCHANGED <<client, window, raw, archived, positions, vessels, jobs, rated>>
  /\ UNCHANGED <<feed, now, stops, dbCrashes>>

\* One insert per first-seen MMSI; a failed one is logged and the loop goes on.
EnqueueEnrichment ==
  /\ pc = "enqueue"
  /\ \E done \in SUBSET fresh :
       /\ \/ done = fresh /\ (IF fresh = {} THEN UNCHANGED <<ctx, faults>> ELSE Succeeds)
          \/ fresh # {} /\ Fails /\ (MayCommit \/ done = {})
       /\ jobs' = [v \in Vessels |-> jobs[v] + IF v \in done THEN 1 ELSE 0]
  /\ Advance("publish")
  /\ UNCHANGED <<client, flags, fresh, window, raw, archived, positions, vessels, last, rated>>
  /\ UNCHANGED <<feed, now, stops, dbCrashes>>

Updates ==
  {[msg |-> m, at |-> IF m.reported = NoTime THEN now ELSE m.reported] : m \in Located}

\* broadcast, the counters, and recordRate, whose failure is only logged.
Publish ==
  /\ pc = "publish"
  /\ feed' = feed \cup Updates
  /\ rowsWritten' = rowsWritten + Len(buf)
  /\ UNCHANGED <<batched, flushErrors>>
  /\ \/ Succeeds /\ rated' = rated + Len(buf)
     \/ Fails /\ rated' \in Left(rated, rated + Len(buf))
  /\ EndBatch
  /\ UNCHANGED <<client, window, raw, archived, positions, vessels, last, jobs>>
  /\ UNCHANGED <<now, stops, dbCrashes>>

-----------------------------------------------------------------------------
(* Housekeeping, the clock, shutdown, crashes and restarts.                *)

\* Mutant: a fingerprint exactly Retention old is purged.
ExpiredEarly == {w \in window : w.seen <= now - Retention}

Expired == {w \in window : w.seen < now - Retention}

Purge ==
  /\ pc \notin NotRunning /\ ctx = "live"
  /\ Expired # {}
  /\ window' = window \ Expired
  /\ UNCHANGED <<client, writer, raw, archived, positions, vessels, last, jobs, rated>>
  /\ UNCHANGED <<feed, now, faults, stops, dbCrashes>>

\* The hourly job: it deletes old messages batch by batch, and may fail in between.
PruneRaw ==
  /\ pc \notin NotRunning /\ ctx = "live"
  /\ raw' \in SUBSET raw /\ raw' # raw
  /\ \A r \in raw \ raw' : r.received < now - RawRetention
  /\ UNCHANGED <<client, writer, window, archived, positions, vessels, last, jobs, rated>>
  /\ UNCHANGED <<feed, now, faults, stops, dbCrashes>>

Tick ==
  /\ now < MaxTime
  /\ now' = now + 1
  /\ UNCHANGED <<client, writer, tables, feed, faults, stops, dbCrashes>>

\* A signal, or a component's error, cancels the context all components share.
Cancel ==
  /\ pc \notin NotRunning /\ ctx = "live" /\ stops < MaxStops
  /\ ctx' = IF pc \in DbSteps THEN "cancelling" ELSE "cancelled"
  /\ stops' = stops + 1
  /\ UNCHANGED <<client, pc, final, buf, flushAt, flags, fresh, counters>>
  /\ UNCHANGED <<tables, feed, now, faults, dbCrashes>>

\* The process dies: a crash, or the forced exit when the grace runs out.
Kill ==
  /\ pc \notin NotRunning /\ stops < MaxStops
  /\ stops' = stops + 1
  /\ pc' = "down" /\ ctx' = "live" /\ final' = FALSE
  /\ chan' = <<>> /\ buf' = <<>> /\ flushAt' = 0 /\ flags' = {} /\ fresh' = {}
  /\ batched' = 0 /\ rowsWritten' = 0 /\ flushErrors' = 0
  /\ UNCHANGED <<unsent, dropped, tables, feed, now, faults, dbCrashes>>

\* Crash recovery truncates the UNLOGGED tables.
DbCrash ==
  /\ dbCrashes < MaxDbCrashes
  /\ dbCrashes' = dbCrashes + 1
  /\ window' = {} /\ last' = EmptyCache /\ rated' = 0
  /\ UNCHANGED <<client, writer, raw, archived, positions, vessels, jobs, feed, now, faults, stops>>

\* What RebuildLastPositions reads out of the archive: every position-type row,
\* duplicates and rows without decoded coordinates included.
Archived(v) ==
  {Fix(r.msg, r.received) : r \in {s \in raw : s.msg.type = "position" /\ s.msg.mmsi = v}}

\* Mutant: any archived row of the vessel is taken.
AnyArchived(v) == Archived(v)

NewestArchived(v) ==
  {f \in Archived(v) : \A g \in Archived(v) : g.reported <= f.reported}

\* A cache with any row in it is taken as warm.
Rebuilt ==
  IF \E v \in Vessels : last[v] # NoFix THEN {last}
  ELSE {c \in [Vessels -> {Fix(r.msg, r.received) : r \in raw} \cup {NoFix}] :
          \A v \in Vessels : \/ c[v] \in NewestArchived(v)
                             \/ Archived(v) = {} /\ c[v] = NoFix}

Start ==
  /\ pc \in NotRunning
  /\ last' \in Rebuilt
  /\ pc' = "select" /\ ctx' = "live" /\ chan' = <<>>
  /\ batched' = 0 /\ rowsWritten' = 0 /\ flushErrors' = 0
  /\ UNCHANGED <<unsent, dropped, final, buf, flushAt, flags, fresh>>
  /\ UNCHANGED <<window, raw, archived, positions, vessels, jobs, rated>>
  /\ UNCHANGED <<feed, now, faults, stops, dbCrashes>>

-----------------------------------------------------------------------------
Statement ==
  \/ MarkDuplicates \/ CopyRaw \/ CopyPositions \/ UpsertVessels
  \/ UpsertLastPositions \/ EnqueueEnrichment \/ Publish

Writer == Take \/ TickerFires \/ ContextDone \/ Statement

Next ==
  \/ \E m \in Messages : Emit(m)
  \/ Writer
  \/ Purge \/ PruneRaw \/ Tick \/ Cancel \/ Kill \/ DbCrash \/ Start

Spec == Init /\ [][Next]_vars

\* The writer goroutine is always scheduled, and every statement returns: run's
\* statements are bounded by its context, finalFlush's by its timeout.
FairSpec == Spec /\ WF_vars(Writer)
-----------------------------------------------------------------------------
(* Properties.                                                             *)

Stored == {r.msg : r \in archived}
Queued == {chan[i] : i \in DOMAIN chan}
Accepted == Messages \ (unsent \cup dropped \cup Queued)

\* Live subscribers never see a fix that failed to persist: whatever was handed
\* to the broadcaster has had its untagged raw row, its positions row, with a time
\* not after the one broadcast, and its vessel, whatever failed on the way.
PublishedIsStored ==
  \A u \in feed :
    /\ u.msg.mmsi \in vessels
    /\ \E r \in archived : r.msg = u.msg /\ ~r.dup
    /\ \E p \in positions : p.msg = u.msg /\ p.reported <= u.at

\* The cache is never behind the live feed: unless Postgres lost it, it holds a
\* fix of the vessel at least as new as every one broadcast, although batches
\* carry fixes out of order.
PublishedIsCurrent ==
  dbCrashes = 0 =>
    \A u \in feed : \E p \in positions :
      p.msg = u.msg /\ last[u.msg.mmsi].reported >= p.reported

\* A position row never comes from a message the archive has tagged duplicate or
\* never had: the derived table follows the archive through every failure.
PositionsFollowArchive ==
  \A p \in positions : \E r \in archived :
    r.msg = p.msg /\ r.received = p.received /\ ~r.dup

\* Every message the writer took from the channel is written, in the batch, or
\* part of a batch whose failure the error counter shows.
NoSilentLoss ==
  LET missing == batched - rowsWritten - Len(buf)
  IN  missing >= 0 /\ missing <= flushErrors * BatchSize

\* "It is called once per MMSI, the first time that MMSI is inserted": over
\* failures, crashes and restarts a vessel never gets a second job, and none
\* before its row exists.
EnqueuedAtMostOnce ==
  \A v \in Vessels : jobs[v] <= 1 /\ (jobs[v] = 1 => v \in vessels)

\* The window covers the retention: a broadcast stored in positions within the
\* last Retention is still known, so a repeat of it will be flagged.
WindowCoversRecent ==
  faults = 0 /\ dbCrashes = 0 =>
    \A p \in positions :
      now - p.received <= Retention => Fingerprint(p.msg) \in Known

\* A message is tagged a duplicate only of a message the archive took untagged.
TaggedHasOriginal ==
  \A r \in archived : r.dup =>
    \E o \in archived : ~o.dup /\ Fingerprint(o.msg) = Fingerprint(r.msg)

\* TaggedHasOriginal holds as long as no flush was failed or cut short.
OriginalKept == faults = 0 /\ stops = 0 => TaggedHasOriginal

\* The strengthening under which the three properties of the tables are inductive:
\* a table holds the rows of the batch once its statement is behind the flush,
\* and a vessel waiting for its job has a row and no job.
FlushLeavesRows ==
  /\ pc \in {"positions", "vessels", "last", "enqueue", "publish"} => RawRows \subseteq archived
  /\ pc \in {"vessels", "last", "enqueue", "publish"} => BatchFixes \subseteq positions
  /\ pc \in {"last", "enqueue", "publish"} => Sightings \subseteq vessels
  /\ flushAt <= now

FreshHasNoJob ==
  pc \in {"last", "enqueue"} => \A v \in fresh : v \in vessels /\ jobs[v] = 0

\* Every flush leaves the tables consistent with one another: the conjunction of
\* the properties above that the proofs carry through every step.
TablesConsistent ==
  /\ FlushLeavesRows /\ FreshHasNoJob
  /\ PositionsFollowArchive /\ PublishedIsStored /\ EnqueuedAtMostOnce

\* A start that finds the cache empty leaves every vessel with an entry at least
\* as new as all its positions whose raw message is within its retention. Of older
\* ones the rebuild knows nothing, as it reads raw_ais_messages.
RebuildCoversPositions ==
  [][Start /\ last = EmptyCache =>
       \A p \in positions :
         now - p.received <= RawRetention => last'[p.msg.mmsi].reported >= p.reported]_vars

\* The ingest path implements the live map: the archive is all that raw_ais_messages
\* ever had, the cache vessel_last_position, the feed what the broadcaster was handed.
Map == INSTANCE LiveMap WITH
  archive <- {Fix(r.msg, r.received) : r \in archived},
  cache <- last,
  feed <- {u.msg : u \in feed}
MapSpec == Map!Spec

\* A message in the channel reaches the archive unless the process stops or the
\* database fails a statement: the ticker flushes a batch that never fills.
QueuedIsStored ==
  \A m \in Messages :
    m \in Queued ~> (m \in Stored \/ faults > 0 \/ stops > 0)

\* A cancelled writer stops, whatever its select picks in between.
ShutdownCompletes == ctx # "live" ~> pc \in NotRunning

-----------------------------------------------------------------------------
(* What the documentation says and the code does not do.                   *)

\* writer.go, Run: a shutdown flushes buffered messages, so none is lost.
ShutdownKeepsBatched ==
  pc = "stopped" /\ faults = 0 => Accepted \subseteq Stored
=============================================================================
