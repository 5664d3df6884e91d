------------------------------ MODULE Detectors ------------------------------
(***************************************************************************)
(* The periodic scans over the stored positions: port calls, AIS gaps,     *)
(* geofence crossings, ship-to-ship transfers and holes to be backfilled.  *)
(* Positions are reported, some of them late, while scans run at any time  *)
(* and in any order; a scan is one statement or transaction, except that   *)
(* of the gaps, which is two statements with reports in between.           *)
(*                                                                         *)
(* Abstractions.                                                           *)
(*  - Time is in ticks, and a vessel reports at most once in a tick.       *)
(*  - A position's coordinates and speed are a place, of which the model   *)
(*    says in which port it lies, whether vessels there are slow, and      *)
(*    whether it is inside the geofence. Vessels are near each other when  *)
(*    they are at the same place.                                          *)
(*  - One active geofence. Ports are loaded.                               *)
(*  - Speeds, counts, distances and centroids of the rows are left out,    *)
(*    and the tag of a resolved gap.                                       *)
(*  - The gap scan's limit of a week is left out: GapMax is shorter.       *)
(*  - The backfill scan reads the holes and inserts their jobs in one step *)
(*    or fails; a backfill, a stub in the code, only ends.                 *)
(*                                                                         *)
(* Casts bounds the model: each behaviour has one of them, which says what *)
(* vessels are about, where, for how long, how late reports come and which *)
(* scans run.                                                              *)
(***************************************************************************)
EXTENDS Integers, Sequences

CONSTANTS
  Vessels, Before(_, _),           \* vessels, and their order by mmsi
  Places, Slow, Fence,             \* Slow, Fence: sets of places
  PortOf(_), NoPort,               \* the port a place lies in
  NoTime,
  CallLookback, CallMinimum,       \* portcall: lookback, minDuration
  GapThreshold, GapMax,            \* gaps: threshold, maxGap
  FenceLookback, FenceInterval,    \* geofence: lookback, interval
  MeetLookback, MeetMinimum,       \* sts: lookback, minDuration
  MeetBucket,                      \* sts: timeTolerance, the width of a bucket
  FillLookback, FillThreshold,     \* backfill: lookback, gapThreshold
  JobRetention,                    \* River: age at which completed jobs are deleted
  MaxTime, Casts

ASSUME DetectorsAssumption ==
  /\ NoTime \notin Nat
  /\ {CallLookback, CallMinimum, GapThreshold, GapMax, FenceLookback, FenceInterval,
      MeetLookback, MeetMinimum, FillLookback, FillThreshold, MaxTime} \subseteq Nat
  /\ MeetBucket \in Nat \ {0} /\ MeetMinimum >= MeetBucket
  /\ JobRetention \in Nat /\ JobRetention >= FillLookback
  /\ Slow \subseteq Places /\ Fence \subseteq Places
  /\ Casts \subseteq [vessels : SUBSET Vessels, places : SUBSET Places, delay : Nat,
                      until : 0 .. MaxTime,
                      scans : SUBSET {"calls", "gaps", "fence", "transfers", "holes"}]

VARIABLES
  cast,
  now,
  positions,   \* [mmsi, at, place]
  calls,       \* port_calls: [mmsi, port, arrived, departed], departed NoTime if open
  gaps,        \* ais_gaps: [mmsi, last, open]
  gapStep,     \* statements the running gap scan has done
  crossings,   \* geofence_events: [mmsi, type, at]
  fenceAt,     \* time of the last geofence scan
  transfers,   \* sts_events: [a, b, started, ended], ended NoTime if open
  backfills,   \* BackfillPositions jobs: [mmsi, from, to, done], done NoTime until then
  \* history
  requested,   \* holes for which a job was ever inserted
  twice,       \* one was inserted for such a hole again
  late,        \* a position came after a later one of its vessel
  stirred,     \* vessels that reported since the gap scan began
  fresh        \* scans that ended after the last change of what they read

filling == <<backfills, requested, twice>>
tables == <<calls, gaps, crossings, transfers, filling>>
vars == <<cast, now, positions, tables, gapStep, fenceAt, late, stirred, fresh>>

Init ==
  /\ cast \in Casts
  /\ now = 0 /\ positions = {} /\ late = FALSE
  /\ calls = {} /\ gaps = {} /\ gapStep = 0 /\ stirred = {}
  /\ crossings = {} /\ fenceAt = 0 /\ transfers = {}
  /\ backfills = {} /\ requested = {} /\ twice = FALSE
  /\ fresh = {}

-----------------------------------------------------------------------------
(* Positions.                                                              *)

Of(v) == {p \in positions : p.mmsi = v}

\* reported_at > now() - lookback
Recent(lookback) == {p \in positions : p.at > now - lookback}

Newest(P) == CHOOSE p \in P : \A q \in P : q.at <= p.at
Oldest(P) == CHOOSE p \in P : \A q \in P : p.at <= q.at

\* p is the position right before q in P, in the order of reported_at.
Follows(q, p, P) ==
  /\ p.mmsi = q.mmsi /\ p.at < q.at
  /\ ~\E r \in P : r.mmsi = p.mmsi /\ p.at < r.at /\ r.at < q.at

\* The writer stores a position, up to delay ticks after it was transmitted.
Report(v, t, place) ==
  /\ t \in now - cast.delay .. now /\ t >= 0
  /\ ~\E p \in Of(v) : p.at = t
  /\ positions' = positions \cup {[mmsi |-> v, at |-> t, place |-> place]}
  /\ late' = (late \/ \E p \in Of(v) : p.at > t)
  /\ stirred' = stirred \cup {v} /\ fresh' = {}
  /\ UNCHANGED <<cast, now, tables, gapStep, fenceAt>>

\* The geofence scan keeps its interval; the others run whenever they do.
Tick ==
  /\ now < cast.until
  /\ "fence" \in cast.scans => now < fenceAt + FenceInterval
  /\ now' = now + 1 /\ fresh' = {}
  /\ UNCHANGED <<cast, positions, tables, gapStep, fenceAt, late, stirred>>

Ended(scan) == fresh' = fresh \cup {scan}

-----------------------------------------------------------------------------
(* Port calls.                                                             *)

OpenCalls(v) == {c \in calls : c.mmsi = v /\ c.departed = NoTime}

\* Mutant: the window does not reach back to the arrival of an open call.
WindowOfLookback(v) == {p \in Of(v) : p.at >= now - CallLookback}

\* scan_start, win, tagged: vessels heard of within the lookback, or with an open
\* call, from whichever begins earlier.
Window(v) ==
  LET starts == {c.arrived : c \in OpenCalls(v)}
                \cup IF Recent(CallLookback) \cap Of(v) # {} THEN {now - CallLookback} ELSE {}
  IN {p \in Of(v) : \E s \in starts : p.at >= s}

\* Mutant: a visit goes on as long as the vessel comes back to the port.
IslandAnyway(v, p) == {q \in Window(v) : PortOf(q.place) = PortOf(p.place)}

\* grp: the contiguous run of positions in the port of p.
Island(v, p) ==
  {q \in Window(v) :
     \A r \in Window(v) :
       (p.at <= r.at /\ r.at <= q.at) \/ (q.at <= r.at /\ r.at <= p.at)
         => PortOf(r.place) = PortOf(p.place)}

\* visits, latest, final: stays of at least the minimum, open while the vessel's
\* newest position is the last of the stay.
Visits(v) ==
  LET stays == {Island(v, p) : p \in {q \in Window(v) : PortOf(q.place) # NoPort}}
      lastSeen == Newest(Window(v)).at
      Row(s) == [mmsi |-> v, port |-> PortOf(Newest(s).place), arrived |-> Oldest(s).at,
                 departed |-> IF Newest(s).at < lastSeen THEN Newest(s).at ELSE NoTime]
  IN {Row(s) : s \in {t \in stays : Newest(t).at - Oldest(t).at >= CallMinimum}}

SameCall(c, d) == c.mmsi = d.mmsi /\ c.port = d.port /\ c.arrived = d.arrived

ScanCalls ==
  LET found == UNION {Visits(v) : v \in cast.vessels}
  IN /\ calls' = found \cup {c \in calls : ~\E d \in found : SameCall(c, d)}
     /\ fresh' = (fresh \ {"gaps"}) \cup {"calls"}
     /\ UNCHANGED <<cast, now, positions, gaps, gapStep, crossings, fenceAt, transfers, filling>>
     /\ UNCHANGED <<late, stirred>>

-----------------------------------------------------------------------------
(* AIS gaps.                                                               *)

OpenGaps(v) == {g \in gaps : g.mmsi = v /\ g.open}

\* Open gaps whose vessel has a position after their start.
Reappeared == {g \in gaps : g.open /\ \E p \in Of(g.mmsi) : p.at > g.last}

\* Last seen between the threshold and the maximum.
Silent(v) ==
  /\ Of(v) # {}
  /\ Newest(Of(v)).at < now - GapThreshold
  /\ Newest(Of(v)).at > now - GapMax

Candidates == {v \in cast.vessels : Silent(v) /\ OpenCalls(v) = {} /\ OpenGaps(v) = {}}

Resolve ==
  gaps' = (gaps \ Reappeared) \cup {[g EXCEPT !.open = FALSE] : g \in Reappeared}

Detect ==
  gaps' = gaps \cup {[mmsi |-> v, last |-> Newest(Of(v)).at, open |-> TRUE] : v \in Candidates}

\* Mutant: gaps are opened first, and resolved then.
DetectFirst == <<"detect", "resolve">>

\* Work resolves first, so that a vessel that returned is not flagged again.
GapWork == <<"resolve", "detect">>

\* One statement of Work; it may fail, and ends the scan when it does.
ScanGaps ==
  /\ \/ GapWork[gapStep + 1] = "resolve" /\ Resolve
     \/ GapWork[gapStep + 1] = "detect" /\ Detect
  /\ gapStep' = (gapStep + 1) % Len(GapWork)
  /\ stirred' = IF gapStep = 0 THEN {} ELSE stirred
  /\ IF gapStep' = 0 THEN Ended("gaps") ELSE fresh' = fresh \ {"gaps"}
  /\ UNCHANGED <<cast, now, positions, calls, crossings, fenceAt, transfers, filling, late>>

GapScanFails ==
  /\ gapStep > 0 /\ gapStep' = 0
  /\ UNCHANGED <<cast, now, positions, tables, fenceAt, late, stirred, fresh>>

-----------------------------------------------------------------------------
(* Geofence crossings.                                                     *)

Inside(p) == p.place \in Fence

\* Mutant: a vessel first seen inside has entered.
EntersAtFirst(q, P) ==
  (\E p \in P : Follows(q, p, P) /\ Inside(q) # Inside(p))
  \/ (Inside(q) /\ ~\E p \in P : Follows(q, p, P))

\* prev_inside is not null, and differs.
Crosses(q, P) == \E p \in P : Follows(q, p, P) /\ Inside(q) # Inside(p)

Crossing(q) == [mmsi |-> q.mmsi, type |-> IF Inside(q) THEN "enter" ELSE "exit", at |-> q.at]

\* On conflict nothing is done, so that crossings form a set.
ScanFence ==
  LET P == Recent(FenceLookback)
  IN /\ crossings' = crossings \cup {Crossing(q) : q \in {r \in P : Crosses(r, P)}}
     /\ fenceAt' = now /\ Ended("fence")
     /\ UNCHANGED <<cast, now, positions, calls, gaps, gapStep, transfers, filling, late, stirred>>

-----------------------------------------------------------------------------
(* Ship-to-ship transfers.                                                 *)

\* time_bucket: the start of the bucket of a time.
BucketOf(t) == t - (t % MeetBucket)

\* Slow and outside any port.
SlowIn(P, v) == {p \in P \cap Of(v) : p.place \in Slow /\ PortOf(p.place) = NoPort}

\* DISTINCT ON: of the slow ones the newest of each bucket.
Snapshot(P, v) ==
  {p \in SlowIn(P, v) : \A q \in SlowIn(P, v) : BucketOf(q.at) = BucketOf(p.at) => q.at <= p.at}

\* Times of a's points of the snapshot near a point of b in the same bucket.
PairTimes(P, a, b) ==
  {p.at : p \in {q \in Snapshot(P, a) :
     \E r \in Snapshot(P, b) : BucketOf(q.at) = BucketOf(r.at) /\ q.place = r.place}}

\* sts_slow: the snapshot of the lookback.
SlowRecent(v) == Snapshot(Recent(MeetLookback), v)

\* pairs: the times at which two vessels were near each other.
Close(a, b) == PairTimes(Recent(MeetLookback), a, b)

\* Mutant: the vessels' positions are taken from the slow ones only.
CurrentSlow(v) == Newest(SlowRecent(v))

\* cur: the newest position, slow or not, in port or not.
Current(v) == Newest(Recent(MeetLookback) \cap Of(v))

First(T) == CHOOSE t \in T : \A u \in T : t <= u
Last(T) == CHOOSE t \in T : \A u \in T : u <= t

\* agg: from the first to the last time they were close, if that is long enough.
Meetings ==
  LET pairs == {x \in cast.vessels \X cast.vessels :
                  /\ Before(x[1], x[2])
                  /\ Close(x[1], x[2]) # {}
                  /\ Last(Close(x[1], x[2])) - First(Close(x[1], x[2])) >= MeetMinimum}
  IN {[a |-> x[1], b |-> x[2], started |-> First(Close(x[1], x[2])),
       ended |-> IF Current(x[1]).place = Current(x[2]).place
                   THEN NoTime ELSE Last(Close(x[1], x[2]))] : x \in pairs}

SameTransfer(m, n) == m.a = n.a /\ m.b = n.b /\ m.started = n.started

ScanTransfers ==
  /\ transfers' =
       Meetings \cup {m \in transfers : ~\E n \in Meetings : SameTransfer(m, n)}
  /\ Ended("transfers")
  /\ UNCHANGED <<cast, now, positions, calls, gaps, gapStep, crossings, fenceAt>>
  /\ UNCHANGED <<filling, late, stirred>>

-----------------------------------------------------------------------------
(* Backfills.                                                              *)

\* LAG over the lookback: reports further apart than the threshold.
Holes ==
  LET P == Recent(FillLookback)
  IN {[mmsi |-> x[2].mmsi, from |-> x[1].at, to |-> x[2].at] :
        x \in {y \in P \X P : Follows(y[2], y[1], P) /\ y[2].at - y[1].at > FillThreshold}}

\* Mutant: only jobs in flight count, as the comment of Work has it.
UniqueInFlight(h) ==
  ~\E b \in backfills : [mmsi |-> b.mmsi, from |-> b.from, to |-> b.to] = h /\ b.done = NoTime

\* UniqueOpts{ByArgs: true}: no row with these arguments, completed ones included.
Unique(h) ==
  ~\E b \in backfills : [mmsi |-> b.mmsi, from |-> b.from, to |-> b.to] = h

\* One job per hole.
ScanHoles ==
  LET new == {h \in Holes : Unique(h)}
  IN /\ backfills' =
          backfills \cup {[mmsi |-> h.mmsi, from |-> h.from, to |-> h.to, done |-> NoTime] : h \in new}
     /\ requested' = requested \cup new
     /\ twice' = (twice \/ new \cap requested # {})
     /\ Ended("holes")
     /\ UNCHANGED <<cast, now, positions, calls, gaps, gapStep, crossings, fenceAt, transfers>>
     /\ UNCHANGED <<late, stirred>>

\* Work of BackfillPositions.
Backfill(b) ==
  /\ b.done = NoTime
  /\ backfills' = (backfills \ {b}) \cup {[b EXCEPT !.done = now]}
  /\ UNCHANGED <<cast, now, positions, calls, gaps, gapStep, crossings, fenceAt, transfers>>
  /\ UNCHANGED <<requested, twice, late, stirred, fresh>>

\* River's cleaner.
Clean(b) ==
  /\ b.done # NoTime /\ b.done <= now - JobRetention
  /\ backfills' = backfills \ {b}
  /\ UNCHANGED <<cast, now, positions, calls, gaps, gapStep, crossings, fenceAt, transfers>>
  /\ UNCHANGED <<requested, twice, late, stirred, fresh>>

-----------------------------------------------------------------------------
Next ==
  \/ \E v \in cast.vessels, t \in 0 .. MaxTime, place \in cast.places : Report(v, t, place)
  \/ Tick
  \/ "calls" \in cast.scans /\ ScanCalls
  \/ "gaps" \in cast.scans /\ (ScanGaps \/ GapScanFails)
  \/ "fence" \in cast.scans /\ ScanFence
  \/ "transfers" \in cast.scans /\ ScanTransfers
  \/ "holes" \in cast.scans /\ (ScanHoles \/ \E b \in backfills : Backfill(b) \/ Clean(b))

Spec == Init /\ [][Next]_vars

-----------------------------------------------------------------------------
(* Properties.                                                             *)

Between(v, t, u) == {p \in Of(v) : t <= p.at /\ p.at <= u}

InPort(c, P) == \A p \in P : PortOf(p.place) = c.port

\* A row of port_calls is a stay: from its arrival to its departure the vessel was
\* seen in that port only, for at least the minimum, and after that elsewhere;
\* after a scan an open row's vessel is still there. Positions that come late may
\* cut a stay in two, and are left out.
CallsAreStays ==
  ~late =>
    \A c \in calls :
      /\ c.departed # NoTime =>
           /\ c.departed - c.arrived >= CallMinimum
           /\ InPort(c, Between(c.mmsi, c.arrived, c.departed))
           /\ \E p \in Of(c.mmsi) : /\ PortOf(p.place) # c.port
                                    /\ Between(c.mmsi, c.departed + 1, p.at) = {p}
      /\ c.departed = NoTime /\ "calls" \in fresh => InPort(c, Between(c.mmsi, c.arrived, now))

\* After a gap scan the open gaps tell who is dark: a vessel silent for long enough
\* but not for too long, and not in port, has one since its newest position, and
\* no vessel has one that was heard of since; whoever reported while the scan
\* ran is excepted.
GapsMatchSilence ==
  "gaps" \in fresh =>
    \A v \in cast.vessels \ stirred :
      /\ Silent(v) /\ OpenCalls(v) = {} => OpenGaps(v) # {}
      /\ \A g \in OpenGaps(v) : g.last = Newest(Of(v)).at

\* Every recorded crossing is one, and none is missed, however late its positions
\* come, as long as they are closer together than the lookback less the
\* interval and the delay.
CrossingsMatch ==
  /\ ~late => \A x \in crossings : \E q \in positions : Crosses(q, positions) /\ x = Crossing(q)
  /\ "fence" \in fresh =>
       \A p, q \in positions :
         /\ Follows(q, p, positions) /\ Inside(q) # Inside(p)
         /\ q.at - p.at + cast.delay + FenceInterval < FenceLookback
         => Crossing(q) \in crossings

\* The bucket in which a transfer started is still in the window as a whole, and
\* the two vessels are still read to have been together for the minimum since.
Standing(m) ==
  /\ BucketOf(m.started) > now - MeetLookback
  /\ \E t \in PairTimes(positions, m.a, m.b) : t - m.started >= MeetMinimum

\* After a transfer scan a row that stands is open exactly if the two vessels are
\* together now. A row does not stand once the window cuts its first bucket, where
\* it may lose the report of one vessel and keep the other's, nor while a later
\* slow report of the last bucket takes the place of the one that made the time up.
TransfersMatchPairs ==
  "transfers" \in fresh /\ ~late =>
    \A m \in transfers :
      Standing(m) => (m.ended = NoTime <=> Newest(Of(m.a)).place = Newest(Of(m.b)).place)

\* After a backfill scan every hole it could see was asked for, however late the
\* positions around it came, and none is ever asked for twice: River forgets a
\* completed job no sooner than its hole has left the lookback.
HolesAskedOnce ==
  /\ ~twice
  /\ "holes" \in fresh =>
       \A p, q \in positions :
         /\ Follows(q, p, positions) /\ q.at - p.at > FillThreshold /\ p.at > now - FillLookback
         => [mmsi |-> p.mmsi, from |-> p.at, to |-> q.at] \in requested

\* sts.go: "opening them and closing them once the vessels part": after a transfer
\* scan the vessels of an open row are together.
PartedIsClosed ==
  "transfers" \in fresh /\ ~late =>
    \A m \in transfers :
      m.ended = NoTime => Newest(Of(m.a)).place = Newest(Of(m.b)).place
=============================================================================
