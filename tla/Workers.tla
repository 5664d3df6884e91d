------------------------------- MODULE Workers -------------------------------
(***************************************************************************)
(* The job queue and the workers that live on it. River keeps jobs as rows *)
(* in Postgres; the service claims rows, runs a worker's statements, and   *)
(* records how the attempt ended. Statements fail, the service is stopped  *)
(* or crashes in between, and rows stay behind for the next attempt.       *)
(*                                                                         *)
(* Five kinds of jobs stand for the fleet:                                 *)
(*  - sweep: a scan more frequent than hourly (portcall, geofence, sts,    *)
(*    destnorm, gaps), one statement whose effect Detectors models;        *)
(*  - refresh, match: the daily sanctions refresh and scan;                *)
(*  - prune: the hourly retention worker;                                  *)
(*  - enrich: one per vessel, enqueued by the ingest writer.               *)
(*                                                                         *)
(* Abstractions.                                                           *)
(*  - River fires a periodic job at its interval and whenever a leader is  *)
(*    elected: here, at any time.                                          *)
(*  - Time is a number of periods, for uniqueness and retention alike.     *)
(*  - A sanctions list is a version; vessels matched against it are tagged *)
(*    as Match says, and which they are is left out.                       *)
(*  - Of raw_ais_messages the model keeps each vessel's newest static      *)
(*    report; which fields it fills is left out.                           *)
(*                                                                         *)
(* Bounds: a cast bounds the kinds, rows, periods, lists, faults and stops *)
(* of a behaviour, MaxJobs the rows of any.                                *)
(***************************************************************************)
EXTENDS Integers, FiniteSets

CONSTANTS
  Vessels,
  NoJob, NoArg, NoList, NoStatic,
  MaxWorkers,      \* queue.go
  maxAttempts,     \* enrich.go: attempts of an enrichment
  riverAttempts,   \* River's default, attempts of every other job
  Retention,       \* retention.go, in periods
  batchSize,       \* retention.go
  MaxJobs, Casts

Kinds == {"sweep", "refresh", "match", "prune", "enrich"}

ASSUME WorkersAssumption ==
  /\ {MaxWorkers, maxAttempts, riverAttempts, Retention, batchSize, MaxJobs}
       \subseteq Nat \ {0}
  /\ NoArg \notin Vessels /\ NoList \notin Nat /\ NoStatic \notin Nat
  /\ Casts \subseteq [kinds : SUBSET Kinds, rows : 1 .. MaxJobs,
                      periods : Nat, lists : Nat, faults : Nat, stops : Nat]

VARIABLES
  cast,
  proc,        \* "up", "stopping" (context cancelled), "down"
  stops, faults,
  period,
  jobs,        \* river_job: rows, or NoJob
  at,          \* the statement a row's attempt is at; "none" if nobody works it
  csv,         \* what the attempt of a row has downloaded
  published,   \* the list OFAC serves
  file, view,  \* the csv on the server, and sanctions_vessels
  matched,     \* lists that vessels were matched against
  static,      \* period of a vessel's newest static report in raw_ais_messages
  newest,      \* history: period in which its newest one was archived
  sighted,     \* vessels the writer has enqueued
  enriched     \* vessels with metadata.enriched_at

queue == <<jobs, at, csv>>
sanctions == <<published, file, view, matched>>
archive == <<static, newest, sighted, enriched>>
vars == <<cast, proc, stops, faults, period, queue, sanctions, archive>>

Rows == 1 .. MaxJobs

Init ==
  /\ cast \in Casts
  /\ proc = "up" /\ stops = 0 /\ faults = 0 /\ period = 0
  /\ jobs = [r \in Rows |-> NoJob]
  /\ at = [r \in Rows |-> "none"] /\ csv = [r \in Rows |-> NoList]
  /\ published = 0 /\ file = NoList /\ view = NoList /\ matched = {}
  /\ static = [v \in Vessels |-> NoStatic] /\ newest = static
  /\ sighted = {} /\ enriched = {}

-----------------------------------------------------------------------------
(* Inserting jobs.                                                         *)

\* Mutant: a scan that was given up is in flight for good.
inFlightDiscarded == {"available", "retryable", "running", "discarded"}

\* inFlight: states of a job that hasn't finished yet.
inFlight == {"available", "retryable", "running"}

\* River's states for uniqueness when ByState is not given.
defaultStates == inFlight \cup {"completed"}

\* PeriodicOpts: scans that tick at least hourly are unique per period, more
\* frequent ones while a run is in flight.
PeriodicOpts(kind) ==
  IF kind = "sweep" THEN [by |-> {}, states |-> inFlight]
                    ELSE [by |-> {"period"}, states |-> defaultStates]

\* EnqueueEnrichment: unique by arguments.
ByArgs == [by |-> {"arg"}, states |-> defaultStates]

\* Mutant: the scan of a refresh is as unique as the periodic one.
scanOptsPeriodic == PeriodicOpts("match")

\* The scan a refresh queues has no options.
scanOpts == [by |-> {}, states |-> {}]

\* A row inserted without options for uniqueness has no key to be compared.
Blocks(job, kind, arg, opts) ==
  /\ job # NoJob /\ job.unique /\ job.kind = kind /\ job.state \in opts.states
  /\ "arg" \in opts.by => job.arg = arg
  /\ "period" \in opts.by => job.period = period

Free == {r \in 1 .. cast.rows : jobs[r] = NoJob}

\* Insert: a new row, unless one like it is there.
Insert(kind, arg, opts) ==
  \/ /\ \E r \in Rows : Blocks(jobs[r], kind, arg, opts)
     /\ jobs' = jobs
  \/ /\ \A r \in Rows : ~Blocks(jobs[r], kind, arg, opts)
     /\ Free # {}
     /\ LET r == CHOOSE f \in Free : \A g \in Free : f <= g
        IN jobs' = [jobs EXCEPT ![r] = [kind |-> kind, arg |-> arg, period |-> period,
                                        unique |-> opts.states # {},
                                        state |-> "available", attempt |-> 0]]

\* Bound: rows are left for the scans that refreshes are about to queue.
Reserved ==
  LET refreshes == {r \in Rows : jobs[r] # NoJob /\ jobs[r].kind = "refresh"
                                 /\ jobs[r].state \in inFlight}
  IN IF refreshes = {} THEN 0 ELSE Cardinality(refreshes) + cast.faults - faults

\* The leader's periodic enqueuer, at an interval or when it was elected.
PeriodicFires(kind) ==
  /\ proc = "up" /\ kind \in cast.kinds \ {"enrich"}
  /\ Insert(kind, NoArg, PeriodicOpts(kind))
  /\ UNCHANGED <<cast, proc, stops, faults, period, at, csv, sanctions, archive>>
  /\ jobs' = jobs \/ (Cardinality(Free) >= Reserved)'

\* The writer inserted the vessel; that happens once.
EnqueueEnrichment(v) ==
  /\ proc = "up" /\ "enrich" \in cast.kinds
  /\ v \notin sighted /\ sighted' = sighted \cup {v}
  /\ Insert("enrich", v, ByArgs)
  /\ UNCHANGED <<cast, proc, stops, faults, period, at, csv, sanctions>>
  /\ UNCHANGED <<static, newest, enriched>>

-----------------------------------------------------------------------------
(* Attempts.                                                               *)

Worked == {r \in Rows : at[r] # "none"}

Entry == [sweep |-> "sweep", refresh |-> "fetch", match |-> "populated",
          prune |-> "prune", enrich |-> "load"]

SetState(r, state) == jobs' = [jobs EXCEPT ![r].state = state]

Claim(r) ==
  /\ proc = "up" /\ Cardinality(Worked) < MaxWorkers
  /\ jobs[r] # NoJob /\ jobs[r].state = "available"
  /\ jobs' = [jobs EXCEPT ![r].state = "running", ![r].attempt = @ + 1]
  /\ at' = [at EXCEPT ![r] = Entry[jobs[r].kind]]
  /\ UNCHANGED <<cast, proc, stops, faults, period, csv, sanctions, archive>>

\* A statement succeeds. Once the context is cancelled none does.
Does(r, statement, next) ==
  /\ proc = "up" /\ at[r] = statement
  /\ at' = [at EXCEPT ![r] = next]
  /\ UNCHANGED <<cast, proc, stops, faults, period>>

Sweep(r) ==
  /\ Does(r, "sweep", "done")
  /\ UNCHANGED <<jobs, csv, sanctions, archive>>

Fetch(r) ==
  /\ Does(r, "fetch", "write") /\ csv' = [csv EXCEPT ![r] = published]
  /\ UNCHANGED <<jobs, sanctions, archive>>

Write(r) ==
  /\ Does(r, "write", "refresh") /\ file' = csv[r]
  /\ UNCHANGED <<jobs, csv, published, view, matched, archive>>

Refresh(r) ==
  /\ Does(r, "refresh", "insert") /\ view' = file
  /\ UNCHANGED <<jobs, csv, published, file, matched, archive>>

InsertScan(r) ==
  /\ Does(r, "insert", "done") /\ Insert("match", NoArg, scanOpts)
  /\ UNCHANGED <<csv, sanctions, archive>>

\* Until the view is populated the scan skips.
Populated(r) ==
  /\ Does(r, "populated", IF view = NoList THEN "done" ELSE "match")
  /\ UNCHANGED <<jobs, csv, sanctions, archive>>

Match(r) ==
  /\ Does(r, "match", "done") /\ matched' = matched \cup {view}
  /\ UNCHANGED <<jobs, csv, published, file, view, archive>>

\* Mutant: everything archived before this period is old.
OldAtOnce == {v \in Vessels : static[v] # NoStatic /\ static[v] < period}

Old == {v \in Vessels : static[v] # NoStatic /\ static[v] < period - Retention}

\* One batch; a full one is followed by another.
Prune(r) ==
  \E batch \in SUBSET Old :
    /\ Cardinality(batch) <= batchSize
    /\ batch = Old \/ Cardinality(batch) = batchSize
    /\ Does(r, "prune", IF Cardinality(batch) < batchSize THEN "done" ELSE "prune")
    /\ static' = [v \in Vessels |-> IF v \in batch THEN NoStatic ELSE static[v]]
    /\ UNCHANGED <<jobs, csv, sanctions, newest, sighted, enriched>>

\* A vessel without static data is not an error.
Load(r) ==
  /\ Does(r, "load", IF static[jobs[r].arg] = NoStatic THEN "done" ELSE "update")
  /\ UNCHANGED <<jobs, csv, sanctions, archive>>

UpdateVessel(r) ==
  /\ Does(r, "update", "done") /\ enriched' = enriched \cup {jobs[r].arg}
  /\ UNCHANGED <<jobs, csv, sanctions, static, newest, sighted>>

Statement(r) ==
  \/ Sweep(r) \/ Fetch(r) \/ Write(r) \/ Refresh(r) \/ InsertScan(r)
  \/ Populated(r) \/ Match(r) \/ Prune(r) \/ Load(r) \/ UpdateVessel(r)

\* An attempt is over, and what it had in memory gone.
Ends(r) == at' = [at EXCEPT ![r] = "none"] /\ csv' = [csv EXCEPT ![r] = NoList]

\* The attempt ended well.
Complete(r) ==
  /\ proc # "down" /\ at[r] = "done"
  /\ SetState(r, "completed") /\ Ends(r)
  /\ UNCHANGED <<cast, proc, stops, faults, period, sanctions, archive>>

Attempts(kind) == IF kind = "enrich" THEN maxAttempts ELSE riverAttempts

Retried(job) == IF job.attempt < Attempts(job.kind) THEN "retryable" ELSE "discarded"

\* A statement fails, or is found to have failed although it took effect; those
\* under a cancelled context all fail.
Fail(r) ==
  /\ at[r] # "none"
  /\ \/ proc = "up" /\ faults < cast.faults /\ faults' = faults + 1
     \/ proc = "stopping" /\ at[r] # "done" /\ faults' = faults
  /\ SetState(r, Retried(jobs[r])) /\ Ends(r)
  /\ UNCHANGED <<cast, proc, stops, period, sanctions, archive>>

-----------------------------------------------------------------------------
(* River's own services, on the leader.                                    *)

\* A job's backoff is over.
Schedule(r) ==
  /\ proc = "up" /\ jobs[r] # NoJob /\ jobs[r].state = "retryable"
  /\ SetState(r, "available")
  /\ UNCHANGED <<cast, proc, stops, faults, period, at, csv, sanctions, archive>>

\* A job is running but nobody works it: its process is gone.
Rescue(r) ==
  /\ proc = "up" /\ jobs[r] # NoJob /\ jobs[r].state = "running" /\ at[r] = "none"
  /\ SetState(r, Retried(jobs[r]))
  /\ UNCHANGED <<cast, proc, stops, faults, period, at, csv, sanctions, archive>>

\* Completed rows go after a day.
Clean(r) ==
  /\ proc = "up" /\ jobs[r] # NoJob /\ jobs[r].state = "completed"
  /\ jobs[r].kind \in {"sweep", "enrich"} \/ jobs[r].period < period
  /\ jobs' = [jobs EXCEPT ![r] = NoJob]
  /\ UNCHANGED <<cast, proc, stops, faults, period, at, csv, sanctions, archive>>

-----------------------------------------------------------------------------
(* The process and the world.                                              *)

\* Run: the context is cancelled, and with it every running job's.
Cancel ==
  /\ proc = "up" /\ stops < cast.stops
  /\ proc' = "stopping" /\ stops' = stops + 1
  /\ UNCHANGED <<cast, faults, period, queue, sanctions, archive>>

\* Stop returns, or its window is over; or the process crashes.
Exit ==
  /\ proc = "stopping" \/ (proc = "up" /\ stops < cast.stops)
  /\ stops' = IF proc = "up" THEN stops + 1 ELSE stops
  /\ proc' = "down" /\ at' = [r \in Rows |-> "none"] /\ csv' = [r \in Rows |-> NoList]
  /\ UNCHANGED <<cast, faults, period, jobs, sanctions, archive>>

Start ==
  /\ proc = "down" /\ proc' = "up"
  /\ UNCHANGED <<cast, stops, faults, period, queue, sanctions, archive>>

\* OFAC publishes a new list.
Publish ==
  /\ published < cast.lists /\ published' = published + 1
  /\ UNCHANGED <<cast, proc, stops, faults, period, queue, file, view, matched, archive>>

\* A static report is archived.
Archive(v) ==
  /\ "enrich" \in cast.kinds
  /\ static' = [static EXCEPT ![v] = period] /\ newest' = [newest EXCEPT ![v] = period]
  /\ UNCHANGED <<cast, proc, stops, faults, period, queue, sanctions, sighted, enriched>>

NextPeriod ==
  /\ period < cast.periods /\ period' = period + 1
  /\ UNCHANGED <<cast, proc, stops, faults, queue, sanctions, archive>>

Next ==
  \/ \E kind \in Kinds : PeriodicFires(kind)
  \/ \E v \in Vessels : EnqueueEnrichment(v) \/ Archive(v)
  \/ \E r \in Rows : \/ Claim(r) \/ Statement(r) \/ Complete(r) \/ Fail(r)
                     \/ Schedule(r) \/ Rescue(r) \/ Clean(r)
  \/ Cancel \/ Exit \/ Start \/ Publish \/ NextPeriod

Spec == Init /\ [][Next]_vars

\* While the service is up, a periodic job fires, an attempt's statements return
\* within its timeout, backoffs end, and River's maintenance runs. Rows are claimed
\* oldest first, so that none is passed over for ever.
FairSpec ==
  /\ Spec
  /\ WF_vars(PeriodicFires("sweep"))
  /\ \A r \in Rows :
       /\ SF_vars(Claim(r))
       /\ WF_vars(Statement(r) \/ Complete(r))
       /\ WF_vars(Schedule(r) \/ Rescue(r) \/ Clean(r))

-----------------------------------------------------------------------------
(* Properties.                                                             *)

StaysUp == <>[](proc = "up")

Lists == UNION {1 .. c.lists : c \in Casts}

\* A service that stays up sweeps again and again, whatever failed, was given up,
\* or was left running by a process that is gone.
ScansRecur ==
  ("sweep" \in cast.kinds) /\ StaysUp => []<><<\E r \in Rows : Sweep(r)>>_vars

\* A list that reached the view is matched, unless another replaces it first:
\* each refresh queues a scan of its own, although the scan of this period may
\* have run, and run on the old list.
NewListIsMatched ==
  StaysUp => \A l \in Lists : view = l ~> (l \in matched \/ view # l)

Enrichments(v, states) ==
  {r \in Rows : /\ jobs[r] # NoJob /\ jobs[r].kind = "enrich" /\ jobs[r].arg = v
                /\ jobs[r].state \in states}

\* The vessel's newest static report is one the retention still asks to keep.
WithinRetention(v) == newest[v] # NoStatic /\ newest[v] >= period - Retention

\* A vessel whose job is still to end while a static report of it is within the
\* retention is enriched, through faults, stops and restarts, unless the job fails
\* until it is discarded or the report outlives the retention first: the pruning
\* takes no report away from a retry that would have come in time.
SightedIsEnriched ==
  StaysUp =>
    \A v \in Vessels :
      WithinRetention(v) /\ (\E r \in Enrichments(v, inFlight) : at[r] # "done") ~>
        v \in enriched \/ Enrichments(v, {"discarded"}) # {} \/ ~WithinRetention(v)
=============================================================================
