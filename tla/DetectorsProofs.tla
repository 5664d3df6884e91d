--------------------------- MODULE DetectorsProofs ---------------------------
(***************************************************************************)
(* The scans, for any vessels, places, lookbacks and times.                *)
(*  - Holes: a hole that was asked for has its job, or has left the        *)
(*    lookback, as a job ends after its hole began and is kept for longer  *)
(*    than the lookback (AskedFor).                                        *)
(*  - Gaps: after the first statement no open gap is contradicted, but by  *)
(*    reports that came since (Resolved).                                  *)
(*  - Crossings: a pair of positions that is not recorded was completed    *)
(*    after the last scan, so that the next one comes in time (Noted).     *)
(*  - Transfers: both vessels have reported in a later bucket than that a  *)
(*    row starts in, so that its points stay what they are, and no pair of *)
(*    points that a scan can still see lies before it; so a scan finds the *)
(*    row under its key until the window cuts its first bucket (Meet).     *)
(*  - Calls: the same, with the window reaching back to the open calls; so *)
(*    every open call is found again, and left open only if it is (Stays). *)
(* Newest and oldest positions exist as every set of numbers has a least.  *)
(***************************************************************************)
EXTENDS Detectors, TLAPS, NaturalsInduction, WellFoundedInduction

Position == [mmsi : Vessels, at : Nat, place : Places]

\* What is stored: positions of the vessels about, one per vessel and time.
Stored ==
  /\ cast \in Casts /\ now \in Nat
  /\ positions \subseteq Position
  /\ \A p \in positions : p.mmsi \in cast.vessels /\ p.at <= now
  /\ \A p, q \in positions : p.mmsi = q.mmsi /\ p.at = q.at => p = q

-----------------------------------------------------------------------------
(* Positions.                                                              *)

\* Lookbacks are numbers, and so is the delay of a cast.
LEMMA Numbers ==
  /\ NoTime \notin Nat
  /\ CallLookback \in Nat /\ CallMinimum \in Nat /\ GapThreshold \in Nat /\ GapMax \in Nat
  /\ FenceLookback \in Nat /\ FenceInterval \in Nat /\ MeetLookback \in Nat /\ MeetMinimum \in Nat
  /\ FillLookback \in Nat /\ FillThreshold \in Nat /\ MaxTime \in Nat
  /\ JobRetention \in Nat /\ JobRetention >= FillLookback
  /\ MeetBucket \in Nat \ {0} /\ MeetMinimum >= MeetBucket
  /\ \A k \in Casts : /\ k.delay \in Nat /\ k.vessels \subseteq Vessels /\ k.places \subseteq Places
<1>1. \A k \in Casts : k \in [vessels : SUBSET Vessels, places : SUBSET Places, delay : Nat,
                      until : 0 .. MaxTime,
                      scans : SUBSET {"calls", "gaps", "fence", "transfers", "holes"}]
  BY DetectorsAssumption
<1>2. \A k \in Casts : /\ k.delay \in Nat /\ k.vessels \subseteq Vessels /\ k.places \subseteq Places
  BY <1>1
<1> QED
  BY <1>2, DetectorsAssumption

\* A report adds one position, later than the vessel's others unless it is late.
LEMMA Reported ==
  ASSUME Stored, NEW v \in cast.vessels, NEW t, NEW place \in cast.places, Report(v, t, place)
  PROVE  \E x \in Position :
           /\ positions' = positions \cup {x} /\ x.mmsi = v /\ x.at = t /\ x.place = place
           /\ x.at <= now /\ now <= x.at + cast.delay
           /\ \A p \in positions : p.mmsi = v => p.at # x.at
           /\ ~late' => ~late /\ \A p \in positions : p.mmsi = v => p.at < x.at
<1> DEFINE x == [mmsi |-> v, at |-> t, place |-> place]
<1>1. cast.delay \in Nat /\ v \in Vessels /\ place \in Places /\ now \in Nat
  BY Numbers DEF Stored
<1>2. t \in Nat /\ t <= now /\ now <= t + cast.delay /\ positions' = positions \cup {x}
  BY <1>1 DEF Report
<1>3. x \in Position /\ x.mmsi = v /\ x.at = t /\ x.place = place
  BY <1>1, <1>2 DEF Position
<1>4. \A p \in positions : p.mmsi = v => p.at # t
  BY DEF Report, Of
<1>5. ~late' => ~late /\ \A p \in positions : p.mmsi = v => ~(p.at > t)
  BY DEF Report, Of
<1>6. \A p \in positions : p.at \in Nat
  BY DEF Stored, Position
<1>7. ~late' => ~late /\ \A p \in positions : p.mmsi = v => p.at < t
  BY <1>2, <1>4, <1>5, <1>6
<1> HIDE DEF x
<1> QED
  BY <1>2, <1>3, <1>4, <1>7

\* Numbers have a least one.
LEMMA LeastOf ==
  ASSUME NEW S \in SUBSET Nat, S # {}
  PROVE  \E j \in S : \A i \in S : j <= i
<1>1. PICK j \in S : \A i \in S : <<i, j>> \notin OpToRel(<, Nat)
  BY WFMin, NatLessThanWellFounded, Zenon
<1>2. \A i \in S : ~(i < j)
  BY <1>1, Zenon DEF OpToRel
<1> QED
  BY <1>2

\* Positions that are not none have a newest and an oldest.
LEMMA NewestIs ==
  ASSUME Stored, NEW P \in SUBSET positions, P # {}
  PROVE  Newest(P) \in P /\ \A q \in P : q.at <= Newest(P).at
<1> DEFINE S == {now - p.at : p \in P}
<1>1. \A p \in P : p.at \in Nat /\ p.at <= now /\ now \in Nat
  BY DEF Stored, Position
<1>2. S \in SUBSET Nat /\ S # {}
  BY <1>1
<1>3. PICK j \in S : \A i \in S : j <= i
  BY <1>2, LeastOf
<1>4. PICK p \in P : now - p.at = j
  OBVIOUS
<1>5. \A q \in P : q.at <= p.at
  BY <1>1, <1>3, <1>4
<1> QED
  BY <1>5 DEF Newest

\* There is an oldest as well.
LEMMA OldestIs ==
  ASSUME Stored, NEW P \in SUBSET positions, P # {}
  PROVE  Oldest(P) \in P /\ \A q \in P : Oldest(P).at <= q.at
<1> DEFINE S == {p.at : p \in P}
<1>1. S \in SUBSET Nat /\ S # {}
  BY DEF Stored, Position
<1>2. PICK j \in S : \A i \in S : j <= i
  BY <1>1, LeastOf
<1>3. PICK p \in P : p.at = j
  OBVIOUS
<1>4. \A q \in P : p.at <= q.at
  BY <1>2, <1>3
<1> QED
  BY <1>4 DEF Oldest

\* Every step is a report, a tick or leaves positions and time alone.
LEMMA Steps ==
  ASSUME [Next]_vars
  PROVE  \/ \E v \in cast.vessels, t \in 0 .. MaxTime, place \in cast.places : Report(v, t, place)
         \/ Tick
         \/ UNCHANGED <<cast, now, positions, late>>
<1>1. ASSUME NEW b \in backfills, Backfill(b) \/ Clean(b)
      PROVE  UNCHANGED <<cast, now, positions, late>>
  BY <1>1 DEF Backfill, Clean
<1> QED
  BY <1>1 DEF Next, vars, ScanCalls, ScanGaps, GapScanFails, ScanFence, ScanTransfers, ScanHoles

\* Every step stores positions of such vessels, one per time.
LEMMA StepKeepsStored ==
  ASSUME Stored, [Next]_vars
  PROVE  Stored'
<1>1. CASE \E v \in cast.vessels, t \in 0 .. MaxTime, place \in cast.places : Report(v, t, place)
  <2>1. PICK v \in cast.vessels, t \in 0 .. MaxTime, place \in cast.places : Report(v, t, place)
    BY <1>1
  <2>2. PICK x \in Position :
           /\ positions' = positions \cup {x} /\ x.mmsi = v
           /\ x.at <= now /\ \A p \in positions : p.mmsi = v => p.at # x.at
    BY <2>1, Reported
  <2>3. cast' = cast /\ now' = now
    BY <2>1 DEF Report
  <2> QED
    BY <2>2, <2>3 DEF Stored
<1>2. CASE Tick
  <2>1. cast' = cast /\ now' = now + 1 /\ positions' = positions
    BY <1>2 DEF Tick
  <2>2. \A p \in positions : p.at \in Nat
    BY DEF Stored, Position
  <2> QED
    BY <2>1, <2>2 DEF Stored
<1>3. CASE UNCHANGED <<cast, now, positions, late>>
  BY <1>3 DEF Stored
<1> QED
  BY <1>1, <1>2, <1>3, Steps

\* Nothing is stored at first.
LEMMA InitStored == Init => Stored
  BY DEF Init, Stored

-----------------------------------------------------------------------------
(* Holes.                                                                  *)

Job == [mmsi : Vessels, from : Nat, to : Nat, done : Nat \cup {NoTime}]

Key(b) == [mmsi |-> b.mmsi, from |-> b.from, to |-> b.to]

\* A hole has a time at which it begins; a job keeps its row until River forgets it.
Jobs ==
  /\ \A h \in requested : h.from \in Nat
  /\ \A b \in backfills :
       /\ b \in Job /\ Key(b) \in requested /\ b.from <= now
       /\ b.done # NoTime => b.from <= b.done

\* A hole that was asked for has its job, or has left the lookback.
AskedFor ==
  /\ ~twice
  /\ \A h \in requested : (\E b \in backfills : Key(b) = h) \/ h.from <= now - FillLookback

Seen ==
  "holes" \in fresh =>
    \A p, q \in positions :
      Follows(q, p, positions) /\ q.at - p.at > FillThreshold /\ p.at > now - FillLookback
        => [mmsi |-> p.mmsi, from |-> p.at, to |-> q.at] \in requested

\* A hole begins within the lookback.
LEMMA HolesAreRecent ==
  ASSUME Stored, NEW h \in Holes
  PROVE  /\ h.from \in Nat /\ h.from <= now /\ h.from > now - FillLookback
         /\ h.to \in Nat /\ h.mmsi \in Vessels
<1>1. PICK p \in Recent(FillLookback), q \in Recent(FillLookback) :
        h = [mmsi |-> q.mmsi, from |-> p.at, to |-> q.at]
  BY DEF Holes
<1> QED
  BY <1>1 DEF Recent, Stored, Position

\* A hole among all positions that begins within the lookback is one of the scan's.
LEMMA HolesAreAll ==
  ASSUME Stored, NEW p \in positions, NEW q \in positions, Follows(q, p, positions),
         q.at - p.at > FillThreshold, p.at > now - FillLookback
  PROVE  [mmsi |-> p.mmsi, from |-> p.at, to |-> q.at] \in Holes
<1>1. p \in Recent(FillLookback) /\ q \in Recent(FillLookback)
  BY Numbers DEF Recent, Follows, Stored, Position
<1>2. Follows(q, p, Recent(FillLookback)) /\ p.mmsi = q.mmsi
  BY DEF Follows, Recent
<1> DEFINE Y == {y \in Recent(FillLookback) \X Recent(FillLookback) :
                     Follows(y[2], y[1], Recent(FillLookback)) /\ y[2].at - y[1].at > FillThreshold}
<1>3. PICK x : x = <<p, q>>
  OBVIOUS
<1>4. x \in Y /\ x[1] = p /\ x[2] = q
  BY <1>1, <1>2, <1>3
<1>5. Holes = {[mmsi |-> z[2].mmsi, from |-> z[1].at, to |-> z[2].at] : z \in Y}
  BY DEF Holes
<1> HIDE DEF Y
<1>6. [mmsi |-> x[2].mmsi, from |-> x[1].at, to |-> x[2].at] \in Holes
  BY <1>4, <1>5
<1> QED
  BY <1>2, <1>4, <1>6

\* A scan asks for what nobody has asked for, and for all that it can see.
LEMMA ScanHolesAsks ==
  ASSUME Stored, Jobs, AskedFor, ScanHoles
  PROVE  Jobs' /\ AskedFor' /\ Seen'
<1> DEFINE new == {h \in Holes : Unique(h)}
           Row(h) == [mmsi |-> h.mmsi, from |-> h.from, to |-> h.to, done |-> NoTime]
<1>1. /\ backfills' = backfills \cup {Row(h) : h \in new} /\ requested' = requested \cup new
      /\ twice' = (twice \/ new \cap requested # {}) /\ now' = now /\ positions' = positions
  BY DEF ScanHoles
<1>2. ASSUME NEW h \in Holes
      PROVE  Key(Row(h)) = h /\ Row(h).from = h.from /\ Row(h).done = NoTime /\ Row(h) \in Job
  <2>1. PICK p, q : h = [mmsi |-> q.mmsi, from |-> p.at, to |-> q.at]
    BY DEF Holes
  <2>2. Row(h) \in Job
    BY HolesAreRecent DEF Job
  <2> QED
    BY <2>1, <2>2 DEF Key
<1>3. \A h \in Holes : h.from \in Nat /\ h.from <= now /\ h.from > now - FillLookback
  BY HolesAreRecent
<1>4. \A h : Unique(h) <=> ~\E b \in backfills : Key(b) = h
  BY DEF Unique, Key
<1> HIDE DEF Row
<1>5. new \cap requested = {}
  BY <1>3, <1>4, Numbers DEF AskedFor, Jobs, Stored
<1>6. Jobs'
  <2>1. ASSUME NEW b \in backfills'
        PROVE  /\ b \in Job /\ Key(b) \in requested' /\ b.from <= now'
               /\ b.done # NoTime => b.from <= b.done
    <3>1. CASE b \in backfills
      BY <1>1, <3>1 DEF Jobs
    <3>2. CASE \E h \in new : b = Row(h)
      BY <1>1, <1>2, <1>3, <3>2
    <3> QED
      BY <1>1, <2>1, <3>1, <3>2
  <2>2. \A h \in requested' : h.from \in Nat
    BY <1>1, <1>3 DEF Jobs
  <2> QED
    BY <2>1, <2>2 DEF Jobs
<1>7. AskedFor'
  BY <1>1, <1>2, <1>5 DEF AskedFor
<1>8. \A h \in Holes : h \in requested'
  BY <1>1, <1>4 DEF Jobs
<1>9. Seen'
  BY <1>1, <1>8, HolesAreAll DEF Seen
<1> QED
  BY <1>6, <1>7, <1>9

\* Every step keeps what is known of holes and their jobs.
LEMMA StepKeepsHoles ==
  ASSUME Stored, Jobs, AskedFor, Seen, [Next]_vars
  PROVE  Jobs' /\ AskedFor' /\ Seen'
<1>1. CASE \E v \in cast.vessels, t \in 0 .. MaxTime, place \in cast.places : Report(v, t, place)
  <2>1. now' = now /\ UNCHANGED filling /\ fresh' = {}
    BY <1>1 DEF Report, tables
  <2> QED
    BY <2>1 DEF filling, Jobs, AskedFor, Seen
<1>2. CASE Tick
  <2>1. now' = now + 1 /\ backfills' = backfills /\ requested' = requested /\ twice' = twice /\ fresh' = {}
    BY <1>2 DEF Tick, tables, filling
  <2>2. \A h \in requested : h.from <= now - FillLookback => h.from <= now' - FillLookback
    BY <2>1, Numbers DEF Jobs, Stored
  <2>3. Jobs'
    BY <2>1 DEF Jobs, Stored, Job
  <2> QED
    BY <2>1, <2>2, <2>3 DEF AskedFor, Seen
<1>3. CASE ScanHoles
  BY <1>3, ScanHolesAsks
<1>4. ASSUME NEW b \in backfills, Backfill(b)
      PROVE  Jobs' /\ AskedFor' /\ Seen'
  <2> DEFINE d == [b EXCEPT !.done = now]
  <2>1. /\ backfills' = (backfills \ {b}) \cup {d} /\ UNCHANGED <<now, positions, requested, twice, fresh>>
    BY <1>4 DEF Backfill
  <2>2. b \in Job /\ now \in Nat /\ b.from <= now /\ Key(b) \in requested
    BY DEF Jobs, Stored
  <2>3. d = [mmsi |-> b.mmsi, from |-> b.from, to |-> b.to, done |-> now]
    BY <2>2 DEF Job
  <2>4. d \in Job /\ d.from = b.from /\ d.done = now /\ Key(d) = Key(b)
    BY <2>2, <2>3 DEF Job, Key
  <2> HIDE DEF d
  <2>5. Jobs'
    BY <2>1, <2>2, <2>4 DEF Jobs
  <2> QED
    BY <2>1, <2>4, <2>5 DEF AskedFor, Seen
<1>5. ASSUME NEW b \in backfills, Clean(b)
      PROVE  Jobs' /\ AskedFor' /\ Seen'
  <2>1. /\ b.done \in Nat /\ b.done <= now - JobRetention /\ b.from <= b.done /\ b.from \in Nat
    BY <1>5 DEF Clean, Jobs, Job
  <2>2. b.from <= now - FillLookback
    BY <2>1, Numbers DEF Stored
  <2>3. /\ backfills' = backfills \ {b} /\ UNCHANGED <<now, positions, requested, twice, fresh>>
    BY <1>5 DEF Clean
  <2>4. Key(b).from = b.from
    BY DEF Key
  <2> QED
    BY <2>2, <2>3, <2>4 DEF Jobs, AskedFor, Seen
<1>6. CASE UNCHANGED <<now, positions, filling>> /\ ("holes" \in fresh' => "holes" \in fresh)
  BY <1>6 DEF filling, Jobs, AskedFor, Seen
<1>7. ScanCalls \/ ScanGaps \/ GapScanFails \/ ScanFence \/ ScanTransfers \/ UNCHANGED vars
        => UNCHANGED <<now, positions, filling>> /\ ("holes" \in fresh' => "holes" \in fresh)
  BY DEF ScanCalls, ScanGaps, GapScanFails, ScanFence, ScanTransfers, vars, tables, Ended
<1> QED
  BY <1>1, <1>2, <1>3, <1>4, <1>5, <1>6, <1>7 DEF Next

\* After a backfill scan every hole it could see was asked for, and none ever twice:
\* a completed job outlives its hole's stay in the lookback (backfill.go, queue.go).
THEOREM HolesAskedOnceHolds == Spec => []HolesAskedOnce
<1>1. Init => Stored /\ Jobs /\ AskedFor /\ Seen
  BY InitStored DEF Init, Jobs, AskedFor, Seen
<1>2. Stored /\ Jobs /\ AskedFor /\ Seen /\ [Next]_vars => (Stored /\ Jobs /\ AskedFor /\ Seen)'
  BY StepKeepsStored, StepKeepsHoles
<1>3. AskedFor /\ Seen => HolesAskedOnce
  BY DEF AskedFor, Seen, HolesAskedOnce
<1> QED
  BY <1>1, <1>2, <1>3, PTL DEF Spec

-----------------------------------------------------------------------------
(* Gaps.                                                                   *)

\* A gap begins with a position of its vessel.
GapsBegin == \A g \in gaps : \E p \in Of(g.mmsi) : p.at = g.last

\* No vessel that kept silent since has an open gap that its positions contradict.
Resolved ==
  gapStep = 1 \/ "gaps" \in fresh =>
    \A v \in cast.vessels \ stirred : \A g \in OpenGaps(v), p \in Of(v) : p.at <= g.last

\* Whoever is silent and at sea has an open gap.
Detected ==
  "gaps" \in fresh =>
    \A v \in cast.vessels : Silent(v) /\ OpenCalls(v) = {} => OpenGaps(v) # {}

GapInv == gaps \subseteq [mmsi : Vessels, last : Nat, open : BOOLEAN]
          /\ gapStep \in 0 .. 1 /\ GapsBegin /\ Resolved /\ Detected

\* Resolving closes the gaps that positions contradict and no others.
LEMMA ResolveResolves ==
  ASSUME Stored, GapInv, Resolve, positions' = positions
  PROVE  /\ gaps' \subseteq [mmsi : Vessels, last : Nat, open : BOOLEAN]
         /\ GapsBegin'
         /\ \A v : \A g \in OpenGaps(v)', p \in Of(v) : p.at <= g.last
<1> DEFINE Shut(g) == [g EXCEPT !.open = FALSE]
<1>1. ASSUME NEW g \in gaps
      PROVE  /\ Shut(g) \in [mmsi : Vessels, last : Nat, open : BOOLEAN]
             /\ Shut(g).mmsi = g.mmsi /\ Shut(g).last = g.last /\ ~Shut(g).open
  BY DEF GapInv
<1>2. gaps' = (gaps \ Reappeared) \cup {Shut(g) : g \in Reappeared}
  BY DEF Resolve
<1>3. Reappeared = {g \in gaps : g.open /\ \E p \in Of(g.mmsi) : p.at > g.last}
  BY DEF Reappeared
<1> HIDE DEF Shut
<1>4. ASSUME NEW g \in gaps'
      PROVE  /\ g \in [mmsi : Vessels, last : Nat, open : BOOLEAN]
             /\ \E p \in Of(g.mmsi) : p.at = g.last
             /\ g.open => g \in gaps \ Reappeared
  <2>1. CASE g \in gaps \ Reappeared
    BY <2>1 DEF GapInv, GapsBegin
  <2>2. CASE \E k \in Reappeared : g = Shut(k)
    <3>1. PICK k \in gaps : g = Shut(k)
      BY <1>3, <2>2
    <3> QED
      BY <1>1, <3>1 DEF GapInv, GapsBegin
  <2> QED
    BY <1>2, <2>1, <2>2
<1>5. \A v : Of(v)' = Of(v)
  BY DEF Of
<1>6. GapsBegin'
  BY <1>4, <1>5 DEF GapsBegin
<1>7. ASSUME NEW v, NEW g \in OpenGaps(v)', NEW p \in Of(v)
      PROVE  p.at <= g.last
  <2>1. g \in gaps' /\ g.mmsi = v /\ g.open
    BY <1>7 DEF OpenGaps
  <2>2. ~(p.at > g.last) /\ g.last \in Nat /\ p.at \in Nat
    BY <1>3, <1>4, <2>1 DEF Of, Stored, Position, GapInv
  <2> QED
    BY <2>2
<1> QED
  BY <1>4, <1>6, <1>7

\* Detecting opens a gap from the newest position, for the silent without one.
LEMMA DetectDetects ==
  ASSUME Stored, GapInv, Detect, positions' = positions
  PROVE  /\ gaps' \subseteq [mmsi : Vessels, last : Nat, open : BOOLEAN]
         /\ GapsBegin'
         /\ \A v : \A g \in OpenGaps(v)' \ OpenGaps(v), p \in Of(v) : p.at <= g.last
         /\ \A v \in cast.vessels : Silent(v) /\ OpenCalls(v) = {} => OpenGaps(v)' # {}
<1> DEFINE Row(v) == [mmsi |-> v, last |-> Newest(Of(v)).at, open |-> TRUE]
<1>1. gaps' = gaps \cup {Row(v) : v \in Candidates}
  BY DEF Detect
<1>2. ASSUME NEW v \in Candidates
      PROVE  /\ Newest(Of(v)) \in Of(v) /\ \A p \in Of(v) : p.at <= Newest(Of(v)).at
             /\ v \in Vessels /\ Newest(Of(v)).at \in Nat
  <2>1. Of(v) \in SUBSET positions /\ Of(v) # {}
    BY DEF Of, Candidates, Silent
  <2>2. Newest(Of(v)) \in Of(v) /\ \A p \in Of(v) : p.at <= Newest(Of(v)).at
    BY <2>1, NewestIs
  <2>3. v \in Vessels
    BY Numbers DEF Candidates, Stored
  <2> QED
    BY <2>1, <2>2, <2>3 DEF Stored, Position
<1>3. ASSUME NEW v \in Candidates
      PROVE  /\ Row(v) \in [mmsi : Vessels, last : Nat, open : BOOLEAN]
             /\ Row(v).mmsi = v /\ Row(v).last = Newest(Of(v)).at /\ Row(v).open
  BY <1>2
<1> HIDE DEF Row
<1>4. \A v : Of(v)' = Of(v)
  BY DEF Of
<1>5. ASSUME NEW g \in gaps'
      PROVE  /\ g \in [mmsi : Vessels, last : Nat, open : BOOLEAN]
             /\ \E p \in Of(g.mmsi) : p.at = g.last
             /\ g \in gaps \/ \A p \in Of(g.mmsi) : p.at <= g.last
  <2>1. CASE g \in gaps
    BY <2>1 DEF GapInv, GapsBegin
  <2>2. CASE \E v \in Candidates : g = Row(v)
    BY <1>2, <1>3, <2>2
  <2> QED
    BY <1>1, <2>1, <2>2
<1>6. GapsBegin'
  BY <1>4, <1>5 DEF GapsBegin
<1>7. \A v : \A g \in OpenGaps(v)' \ OpenGaps(v), p \in Of(v) : p.at <= g.last
  BY <1>5 DEF OpenGaps
<1>8. ASSUME NEW v \in cast.vessels, Silent(v), OpenCalls(v) = {}
      PROVE  OpenGaps(v)' # {}
  <2>1. CASE v \in Candidates
    BY <1>1, <1>3, <2>1 DEF OpenGaps
  <2>2. CASE OpenGaps(v) # {}
    BY <1>1, <2>2 DEF OpenGaps
  <2> QED
    BY <1>8, <2>1, <2>2 DEF Candidates
<1> QED
  BY <1>5, <1>6, <1>7, <1>8

\* Every step keeps what is known of gaps.
LEMMA StepKeepsGaps ==
  ASSUME Stored, GapInv, [Next]_vars
  PROVE  GapInv'
<1>1. CASE \E v \in cast.vessels, t \in 0 .. MaxTime, place \in cast.places : Report(v, t, place)
  <2>1. PICK v \in cast.vessels, t \in 0 .. MaxTime, place \in cast.places : Report(v, t, place)
    BY <1>1
  <2>2. PICK x \in Position : positions' = positions \cup {x} /\ x.mmsi = v
    BY <2>1, Reported
  <2>3. /\ gaps' = gaps /\ gapStep' = gapStep /\ fresh' = {} /\ stirred' = stirred \cup {v}
        /\ cast' = cast
    BY <2>1 DEF Report, tables
  <2>4. GapsBegin'
    BY <2>2, <2>3 DEF GapInv, GapsBegin, Of
  <2>5. Resolved'
    BY <2>2, <2>3 DEF GapInv, Resolved, Of, OpenGaps
  <2> QED
    BY <2>3, <2>4, <2>5 DEF GapInv, Detected
<1>2. CASE Tick
  BY <1>2 DEF Tick, tables, GapInv, GapsBegin, Resolved, Detected, Of, OpenGaps
<1>3. CASE ScanCalls
  BY <1>3 DEF ScanCalls, GapInv, GapsBegin, Resolved, Detected, Of, OpenGaps
<1>4. CASE ScanGaps
  <2>1. UNCHANGED <<cast, now, positions, calls>>
    BY <1>4 DEF ScanGaps
  <2>2. \A v : Of(v)' = Of(v) /\ OpenCalls(v)' = OpenCalls(v) /\ (Silent(v)' <=> Silent(v))
    BY <2>1 DEF Of, OpenCalls, Silent
  <2>3. Len(GapWork) = 2 /\ GapWork[1] = "resolve" /\ GapWork[2] = "detect"
    BY DEF GapWork
  <2>4. CASE gapStep = 0
    <3>1. Resolve /\ gapStep' = 1 /\ stirred' = {} /\ fresh' = fresh \ {"gaps"}
      BY <1>4, <2>3, <2>4 DEF ScanGaps
    <3> QED
      BY <2>1, <2>2, <3>1, ResolveResolves DEF GapInv, Resolved, Detected
  <2>5. CASE gapStep = 1
    <3>1. Detect /\ gapStep' = 0 /\ stirred' = stirred
      BY <1>4, <2>3, <2>5 DEF ScanGaps
    <3>2. /\ gaps' \subseteq [mmsi : Vessels, last : Nat, open : BOOLEAN]
          /\ GapsBegin'
          /\ \A v : \A g \in OpenGaps(v)' \ OpenGaps(v), p \in Of(v) : p.at <= g.last
          /\ \A v \in cast.vessels : Silent(v) /\ OpenCalls(v) = {} => OpenGaps(v)' # {}
      BY <2>1, <3>1, DetectDetects
    <3>3. Resolved'
      BY <2>1, <2>2, <2>5, <3>1, <3>2 DEF GapInv, Resolved
    <3>4. Detected'
      BY <2>1, <2>2, <3>2 DEF Detected
    <3> QED
      BY <3>1, <3>2, <3>3, <3>4 DEF GapInv
  <2> QED
    BY <2>4, <2>5 DEF GapInv
<1>5. CASE GapScanFails
  BY <1>5 DEF GapScanFails, tables, GapInv, GapsBegin, Resolved, Detected, Of, OpenGaps, OpenCalls, Silent
<1>6. CASE UNCHANGED <<cast, now, positions, calls, gaps, gapStep, stirred>>
           /\ ("gaps" \in fresh' => "gaps" \in fresh)
  BY <1>6 DEF GapInv, GapsBegin, Resolved, Detected, Of, OpenGaps, OpenCalls, Silent
<1>7. ASSUME NEW b \in backfills, Backfill(b) \/ Clean(b)
      PROVE  UNCHANGED <<cast, now, positions, calls, gaps, gapStep, stirred, fresh>>
  BY <1>7 DEF Backfill, Clean
<1>8. ScanFence \/ ScanTransfers \/ ScanHoles \/ UNCHANGED vars
        => UNCHANGED <<cast, now, positions, calls, gaps, gapStep, stirred>>
           /\ ("gaps" \in fresh' => "gaps" \in fresh)
  BY DEF ScanFence, ScanTransfers, ScanHoles, vars, tables, Ended
<1> QED
  BY <1>1, <1>2, <1>3, <1>4, <1>5, <1>6, <1>7, <1>8 DEF Next

\* After a gap scan the open gaps tell who is dark (gaps.go): whoever is silent for
\* long enough but not too long, and not in port, and nobody heard of since; whoever
\* reported between the scan's two statements is excepted.
THEOREM GapsMatchSilenceHolds == Spec => []GapsMatchSilence
<1>1. Init => Stored /\ GapInv
  BY InitStored DEF Init, GapInv, GapsBegin, Resolved, Detected
<1>2. Stored /\ GapInv /\ [Next]_vars => (Stored /\ GapInv)'
  BY StepKeepsStored, StepKeepsGaps
<1>3. Stored /\ GapInv => GapsMatchSilence
  <2> SUFFICES ASSUME Stored, GapInv, "gaps" \in fresh, NEW v \in cast.vessels \ stirred
               PROVE  /\ Silent(v) /\ OpenCalls(v) = {} => OpenGaps(v) # {}
                      /\ \A g \in OpenGaps(v) : g.last = Newest(Of(v)).at
    BY DEF GapsMatchSilence
  <2>1. ASSUME NEW g \in OpenGaps(v)
        PROVE  g.last = Newest(Of(v)).at
    <3>1. PICK p \in Of(v) : p.at = g.last
      BY DEF GapInv, GapsBegin, OpenGaps
    <3>2. Newest(Of(v)) \in Of(v) /\ \A q \in Of(v) : q.at <= Newest(Of(v)).at
      BY <3>1, NewestIs DEF Of
    <3>3. \A q \in Of(v) : q.at <= g.last /\ q.at \in Nat
      BY DEF GapInv, Resolved, Stored, Position, Of
    <3> QED
      BY <3>1, <3>2, <3>3
  <2> QED
    BY <2>1 DEF GapInv, Detected
<1> QED
  BY <1>1, <1>2, <1>3, PTL DEF Spec

-----------------------------------------------------------------------------
(* Crossings.                                                              *)

\* The scan keeps its interval.
InTime == fenceAt \in Nat /\ fenceAt <= now /\ ("fence" \in cast.scans => now <= fenceAt + FenceInterval)

\* A pair of positions on either side of the fence, close enough to be seen together.
Seeable(p, q) ==
  /\ Follows(q, p, positions) /\ Inside(q) # Inside(p)
  /\ q.at - p.at + cast.delay + FenceInterval < FenceLookback

\* A pair that is not recorded was completed after the last scan, and that was no
\* later than the delay of a report allows.
Noted ==
  \A p, q \in positions :
    Seeable(p, q) /\ Crossing(q) \notin crossings => "fence" \notin fresh /\ fenceAt <= q.at + cast.delay

\* What is recorded crosses, as long as positions come in order.
Recorded ==
  ~late => \A x \in crossings : \E q \in positions : Crosses(q, positions) /\ x = Crossing(q)

FenceInv == InTime /\ Noted /\ Recorded

\* The crossings that a scan sees are those among all positions whose first one is recent.
LEMMA RecentCrossings ==
  ASSUME Stored, NEW lookback \in Nat, NEW q
  PROVE  q \in Recent(lookback) /\ Crosses(q, Recent(lookback))
           <=> q \in positions /\ \E p \in positions : /\ Follows(q, p, positions) /\ Inside(q) # Inside(p)
                                                       /\ p.at > now - lookback
<1>1. \A p \in positions : p.at \in Nat /\ now \in Nat
  BY DEF Stored, Position
<1>2. \A p \in positions : p \in Recent(lookback) <=> p.at > now - lookback
  BY DEF Recent
<1>3. Recent(lookback) \subseteq positions
  BY DEF Recent
<1>4. ASSUME NEW p \in positions, q \in positions, p.at > now - lookback
      PROVE  Follows(q, p, Recent(lookback)) <=> Follows(q, p, positions)
  BY <1>1, <1>2, <1>3, <1>4 DEF Follows
<1>5. \A p \in positions :
        q \in positions /\ p.at > now - lookback /\ Follows(q, p, positions) => q.at > now - lookback
  BY <1>1 DEF Follows
<1> QED
  BY <1>2, <1>3, <1>4, <1>5 DEF Crosses

\* A scan records every pair that was waiting: it comes within its interval.
LEMMA ScanFenceRecords ==
  ASSUME Stored, FenceInv, ScanFence, "fence" \in cast.scans
  PROVE  FenceInv'
<1> DEFINE P == Recent(FenceLookback)
<1>1. /\ crossings' = crossings \cup {Crossing(q) : q \in {r \in P : Crosses(r, P)}}
      /\ fenceAt' = now /\ UNCHANGED <<cast, now, positions, late>>
  BY DEF ScanFence
<1>2. \A q : q \in P /\ Crosses(q, P)
               <=> q \in positions /\ \E p \in positions : /\ Follows(q, p, positions) /\ Inside(q) # Inside(p)
                                                           /\ p.at > now - FenceLookback
  BY RecentCrossings, Numbers
<1> HIDE DEF P
<1>3. InTime'
  BY <1>1, Numbers DEF FenceInv, InTime, Stored
<1>4. ASSUME NEW p \in positions, NEW q \in positions, Seeable(p, q)
      PROVE  Crossing(q) \in crossings'
  <2>1. CASE Crossing(q) \in crossings
    BY <1>1, <2>1
  <2>2. CASE Crossing(q) \notin crossings
    <3>1. fenceAt <= q.at + cast.delay
      BY <1>4, <2>2 DEF FenceInv, Noted
    <3>2. now <= fenceAt + FenceInterval /\ fenceAt \in Nat
      BY DEF FenceInv, InTime
    <3>3. p.at \in Nat /\ q.at \in Nat /\ now \in Nat /\ cast.delay \in Nat
      BY Numbers DEF Stored, Position
    <3>4. q.at - p.at + cast.delay + FenceInterval < FenceLookback
      BY <1>4 DEF Seeable
    <3>5. p.at > now - FenceLookback
      BY <3>1, <3>2, <3>3, <3>4, Numbers
    <3> QED
      BY <1>1, <1>2, <1>4, <3>5 DEF Seeable
  <2> QED
    BY <2>1, <2>2
<1>5. Noted'
  BY <1>1, <1>4 DEF Noted, Seeable, Follows
<1>6. Recorded'
  <2>1. \A q \in P : Crosses(q, P) => q \in positions /\ Crosses(q, positions)
    BY <1>2 DEF Crosses
  <2> QED
    BY <1>1, <2>1 DEF FenceInv, Recorded, Crosses, Follows
<1> QED
  BY <1>3, <1>5, <1>6 DEF FenceInv

\* A report makes new pairs, which wait for the next scan, or breaks old ones.
LEMMA ReportKeepsCrossings ==
  ASSUME Stored, FenceInv, NEW v \in cast.vessels, NEW t, NEW place \in cast.places, Report(v, t, place)
  PROVE  FenceInv'
<1>1. PICK x \in Position :
         /\ positions' = positions \cup {x} /\ x.mmsi = v
         /\ x.at <= now /\ now <= x.at + cast.delay
         /\ \A p \in positions : p.mmsi = v => p.at # x.at
         /\ ~late' => ~late /\ \A p \in positions : p.mmsi = v => p.at < x.at
  BY Reported
<1>2. UNCHANGED <<cast, now, crossings, fenceAt>> /\ fresh' = {}
  BY DEF Report, tables
<1>3. InTime'
  BY <1>2 DEF FenceInv, InTime
<1>4. /\ \A p \in positions' : p.at \in Nat
      /\ now \in Nat /\ cast.delay \in Nat /\ fenceAt \in Nat /\ fenceAt <= now
  BY <1>1, Numbers DEF Stored, Position, FenceInv, InTime
<1>5. ASSUME NEW p \in positions', NEW q \in positions', Seeable(p, q)', Crossing(q) \notin crossings
      PROVE  fenceAt <= q.at + cast.delay
  <2>1. Follows(q, p, positions')
    BY <1>5 DEF Seeable
  <2>2. CASE p \in positions /\ q \in positions
    <3>1. Follows(q, p, positions)
      BY <1>1, <2>1 DEF Follows
    <3>2. Seeable(p, q)
      BY <1>2, <1>5, <3>1 DEF Seeable
    <3> QED
      BY <1>5, <2>2, <3>2 DEF FenceInv, Noted
  <2>3. CASE p = x \/ q = x
    <3>1. p.at < q.at
      BY <2>1 DEF Follows
    <3>2. x.at <= q.at
      BY <1>4, <2>3, <3>1
    <3> QED
      BY <1>1, <1>4, <3>2
  <2> QED
    BY <1>1, <2>2, <2>3
<1>6. Noted'
  BY <1>2, <1>5 DEF Noted
<1>7. Recorded'
  <2> SUFFICES ASSUME ~late', NEW c \in crossings
               PROVE  \E q \in positions' : Crosses(q, positions') /\ c = Crossing(q)
    BY <1>2 DEF Recorded
  <2>1. PICK q \in positions : Crosses(q, positions) /\ c = Crossing(q)
    BY <1>1 DEF FenceInv, Recorded
  <2>2. PICK p \in positions : Follows(q, p, positions) /\ Inside(q) # Inside(p)
    BY <2>1 DEF Crosses
  <2>3. ~(x.mmsi = p.mmsi /\ p.at < x.at /\ x.at < q.at)
    <3>1. q.mmsi = v => q.at < x.at
      BY <1>1
    <3>2. p.mmsi = q.mmsi /\ q.at \in Nat /\ x.at \in Nat
      BY <1>1, <1>4, <2>2 DEF Follows
    <3> QED
      BY <1>1, <3>1, <3>2
  <2>4. Follows(q, p, positions')
    BY <1>1, <2>2, <2>3 DEF Follows
  <2> QED
    BY <1>1, <2>1, <2>2, <2>4 DEF Crosses
<1> QED
  BY <1>3, <1>6, <1>7 DEF FenceInv

\* Every step keeps what is known of crossings.
LEMMA StepKeepsCrossings ==
  ASSUME Stored, FenceInv, [Next]_vars
  PROVE  FenceInv'
<1>1. CASE \E v \in cast.vessels, t \in 0 .. MaxTime, place \in cast.places : Report(v, t, place)
  BY <1>1, ReportKeepsCrossings
<1>2. CASE Tick
  <2>1. /\ UNCHANGED <<cast, positions, crossings, fenceAt, late>> /\ fresh' = {} /\ now' = now + 1
        /\ "fence" \in cast.scans => now < fenceAt + FenceInterval
    BY <1>2 DEF Tick, tables
  <2>2. InTime'
    BY <2>1, Numbers DEF FenceInv, InTime, Stored
  <2> QED
    BY <2>1, <2>2 DEF FenceInv, Noted, Recorded, Seeable, Follows, Crosses
<1>3. CASE "fence" \in cast.scans /\ ScanFence
  BY <1>3, ScanFenceRecords
<1>4. CASE UNCHANGED <<cast, now, positions, crossings, fenceAt, late>>
           /\ ("fence" \in fresh' => "fence" \in fresh)
  BY <1>4 DEF FenceInv, InTime, Noted, Recorded, Seeable, Follows, Crosses
<1>5. ASSUME NEW b \in backfills, Backfill(b) \/ Clean(b)
      PROVE  UNCHANGED <<cast, now, positions, crossings, fenceAt, late, fresh>>
  BY <1>5 DEF Backfill, Clean
<1>6. ScanCalls \/ ScanGaps \/ GapScanFails \/ ScanTransfers \/ ScanHoles \/ UNCHANGED vars
        => UNCHANGED <<cast, now, positions, crossings, fenceAt, late>>
           /\ ("fence" \in fresh' => "fence" \in fresh)
  BY DEF ScanCalls, ScanGaps, GapScanFails, ScanTransfers, ScanHoles, vars, tables, Ended
<1> QED
  BY <1>1, <1>2, <1>3, <1>4, <1>5, <1>6 DEF Next

\* Every recorded crossing is one, and none is missed, however late its positions
\* come (geofence.go), as long as they are closer together than the lookback less
\* the interval and the delay.
THEOREM CrossingsMatchHolds == Spec => []CrossingsMatch
<1>1. Init => Stored /\ FenceInv
  BY InitStored, Numbers DEF Init, FenceInv, InTime, Noted, Recorded
<1>2. Stored /\ FenceInv /\ [Next]_vars => (Stored /\ FenceInv)'
  BY StepKeepsStored, StepKeepsCrossings
<1>3. FenceInv => CrossingsMatch
  BY DEF FenceInv, Noted, Recorded, Seeable, CrossingsMatch
<1> QED
  BY <1>1, <1>2, <1>3, PTL DEF Spec

-----------------------------------------------------------------------------
(* Transfers.                                                              *)

\* A point p of a and a point r of b are near in their bucket, whatever the window.
Near(a, b, p, r) ==
  /\ p \in Snapshot(positions, a) /\ r \in Snapshot(positions, b)
  /\ BucketOf(p.at) = BucketOf(r.at) /\ p.place = r.place

\* The vessel has reported in a later bucket than that of t.
Passed(v, t) == \E p \in Of(v) : BucketOf(t) < BucketOf(p.at)

\* A row is of two vessels that were near each other when it started, and whose
\* first bucket is complete; no points near each other that a scan can still see lie
\* before it.
Meet(m) ==
  /\ m.a \in cast.vessels /\ m.b \in cast.vessels /\ Before(m.a, m.b) /\ m.started \in Nat
  /\ \E p, r : Near(m.a, m.b, p, r) /\ p.at = m.started
  /\ Passed(m.a, m.started) /\ Passed(m.b, m.started)
  /\ \A p, r : Near(m.a, m.b, p, r) /\ p.at < m.started
                 => p.at <= now - MeetLookback \/ r.at <= now - MeetLookback

Together(a, b) == Newest(Of(a)).place = Newest(Of(b)).place

Met == ~late => \A m \in transfers : Meet(m)

Settled ==
  "transfers" \in fresh /\ ~late =>
    \A m \in transfers : Standing(m) => (m.ended = NoTime <=> Together(m.a, m.b))

\* A time is in its bucket, and buckets follow one another.
LEMMA Buckets ==
  /\ \A t \in Nat : BucketOf(t) \in Nat /\ BucketOf(t) <= t /\ t < BucketOf(t) + MeetBucket
  /\ \A t, u \in Nat : t <= u => BucketOf(t) <= BucketOf(u)
  /\ \A t, u \in Nat : t + MeetBucket <= u => BucketOf(t) < BucketOf(u)
<1>1. MeetBucket \in Nat \ {0}
  BY Numbers
<1>2. ASSUME NEW t \in Nat
      PROVE  BucketOf(t) \in Nat /\ BucketOf(t) <= t /\ t < BucketOf(t) + MeetBucket
  BY <1>1 DEF BucketOf
<1>3. ASSUME NEW t \in Nat, NEW u \in Nat, t <= u
      PROVE  BucketOf(t) <= BucketOf(u)
  BY <1>1, <1>3 DEF BucketOf
<1>4. ASSUME NEW t \in Nat, NEW u \in Nat, t + MeetBucket <= u
      PROVE  BucketOf(t) < BucketOf(u)
  BY <1>1, <1>2, <1>4
<1> QED
  BY <1>2, <1>3, <1>4

\* What is near is positions of the two vessels, at times up to now.
LEMMA NearIs ==
  ASSUME Stored, NEW a, NEW b, NEW p, NEW r, Near(a, b, p, r)
  PROVE  /\ p \in Of(a) /\ r \in Of(b) /\ p.at \in Nat /\ r.at \in Nat /\ p.at <= now /\ r.at <= now
         /\ BucketOf(p.at) = BucketOf(r.at) /\ BucketOf(p.at) <= p.at /\ BucketOf(p.at) <= r.at
         /\ BucketOf(p.at) \in Nat
<1>1. p \in Of(a) /\ r \in Of(b) /\ BucketOf(p.at) = BucketOf(r.at)
  BY DEF Near, Snapshot, SlowIn
<1>2. p.at \in Nat /\ r.at \in Nat /\ p.at <= now /\ r.at <= now
  BY <1>1 DEF Of, Stored, Position
<1> QED
  BY <1>1, <1>2, Buckets

\* The times of a pair over the whole table.
LEMMA PairTimesAre ==
  ASSUME NEW a, NEW b
  PROVE  \A t : t \in PairTimes(positions, a, b) <=> \E p, r : Near(a, b, p, r) /\ p.at = t
BY DEF PairTimes, Near

\* Times have a first and, up to now, a last.
LEMMA FirstIs ==
  ASSUME NEW S \in SUBSET Nat, S # {}
  PROVE  First(S) \in S /\ \A t \in S : First(S) <= t
<1>1. \E j \in S : \A i \in S : j <= i
  BY LeastOf
<1> QED
  BY <1>1 DEF First

\* A last one, up to now.
LEMMA LastIs ==
  ASSUME NEW S \in SUBSET Nat, S # {}, NEW n \in Nat, \A t \in S : t <= n
  PROVE  Last(S) \in S /\ \A t \in S : t <= Last(S)
<1> DEFINE R == {n - t : t \in S}
<1>1. R \in SUBSET Nat /\ R # {}
  <2>1. \A t \in S : t \in Nat /\ t <= n /\ n - t \in Nat
    OBVIOUS
  <2> QED
    BY <2>1
<1>2. PICK j \in R : \A i \in R : j <= i
  BY <1>1, LeastOf
<1>3. PICK u \in S : n - u = j
  OBVIOUS
<1>4. \A t \in S : t <= u
  BY <1>2, <1>3
<1> QED
  BY <1>4 DEF Last

\* The window only cuts the oldest points off: what it leaves of a bucket has the
\* same newest point.
LEMMA SlowRecentIs ==
  ASSUME Stored, NEW v, NEW p
  PROVE  p \in SlowRecent(v) <=> p \in Snapshot(positions, v) /\ p.at > now - MeetLookback
<1> DEFINE P == Recent(MeetLookback)
<1>1. \A q : q \in SlowIn(P, v) <=> q \in SlowIn(positions, v) /\ q.at > now - MeetLookback
  BY DEF SlowIn, Recent, Of
<1>2. \A q \in SlowIn(positions, v) : q.at \in Nat
  BY DEF SlowIn, Of, Stored, Position
<1>3. now - MeetLookback \in Int
  BY Numbers DEF Stored
<1>4. \A q, u \in SlowIn(positions, v) : q.at > now - MeetLookback /\ ~(u.at <= q.at) => u.at > now - MeetLookback
  BY <1>2, <1>3
<1>5. SlowRecent(v) = {q \in SlowIn(P, v) : \A u \in SlowIn(P, v) : BucketOf(u.at) = BucketOf(q.at) => u.at <= q.at}
  BY DEF SlowRecent, Snapshot
<1>6. Snapshot(positions, v) = {q \in SlowIn(positions, v) :
         \A u \in SlowIn(positions, v) : BucketOf(u.at) = BucketOf(q.at) => u.at <= q.at}
  BY DEF Snapshot
<1> HIDE DEF P
<1> QED
  BY <1>1, <1>4, <1>5, <1>6

\* The times a scan takes two vessels to have been close: those of points near each
\* other both of which are in the window.
LEMMA CloseIs ==
  ASSUME Stored, NEW a, NEW b
  PROVE  /\ Close(a, b) \in SUBSET Nat /\ \A t \in Close(a, b) : t <= now
         /\ \A t : t \in Close(a, b)
                     <=> \E p, r : /\ Near(a, b, p, r) /\ p.at = t
                                   /\ p.at > now - MeetLookback /\ r.at > now - MeetLookback
<1>1. \A v, p : p \in SlowRecent(v) <=> p \in Snapshot(positions, v) /\ p.at > now - MeetLookback
  BY SlowRecentIs
<1>2. \A t : t \in Close(a, b)
               <=> \E p \in SlowRecent(a), r \in SlowRecent(b) :
                      p.at = t /\ BucketOf(p.at) = BucketOf(r.at) /\ p.place = r.place
  BY DEF Close, PairTimes, SlowRecent
<1>3. \A t : t \in Close(a, b)
               <=> \E p, r : /\ Near(a, b, p, r) /\ p.at = t
                             /\ p.at > now - MeetLookback /\ r.at > now - MeetLookback
  BY <1>1, <1>2 DEF Near
<1>4. \A p, r : Near(a, b, p, r) => p.at \in Nat /\ p.at <= now
  BY NearIs
<1> QED
  BY <1>3, <1>4

\* The row of two vessels.
RowOf(a, b) ==
  [a |-> a, b |-> b, started |-> First(Close(a, b)),
   ended |-> IF Current(a).place = Current(b).place THEN NoTime ELSE Last(Close(a, b))]

Meets(a, b) ==
  /\ Before(a, b) /\ Close(a, b) # {}
  /\ Last(Close(a, b)) - First(Close(a, b)) >= MeetMinimum

\* A scan writes one row for each pair that meets.
LEMMA MeetingsAre ==
  \A n : n \in Meetings <=> \E a, b \in cast.vessels : Meets(a, b) /\ n = RowOf(a, b)
<1> DEFINE pairs == {x \in cast.vessels \X cast.vessels : Meets(x[1], x[2])}
<1>1. Meetings = {RowOf(x[1], x[2]) : x \in pairs}
  BY DEF Meetings, RowOf, Meets
<1>2. ASSUME NEW a \in cast.vessels, NEW b \in cast.vessels, Meets(a, b)
      PROVE  RowOf(a, b) \in Meetings
  <2>1. PICK x : x = <<a, b>>
    OBVIOUS
  <2>2. x \in pairs /\ x[1] = a /\ x[2] = b
    BY <1>2, <2>1
  <2>3. RowOf(x[1], x[2]) \in Meetings
    BY <1>1, <2>2
  <2> QED
    BY <2>2, <2>3
<1>3. ASSUME NEW n \in Meetings
      PROVE  \E a, b \in cast.vessels : Meets(a, b) /\ n = RowOf(a, b)
  BY <1>1
<1> QED
  BY <1>2, <1>3

\* Where a vessel with a recent position is.
LEMMA CurrentIs ==
  ASSUME Stored, NEW v, NEW p \in Of(v), p.at > now - MeetLookback
  PROVE  Current(v).place = Newest(Of(v)).place
<1> DEFINE P == Recent(MeetLookback) \cap Of(v)
<1>1. p \in P /\ P \in SUBSET positions /\ Of(v) \in SUBSET positions
  BY DEF Recent, Of
<1>2. Newest(P) \in P /\ \A q \in P : q.at <= Newest(P).at
  BY <1>1, NewestIs
<1>3. Newest(Of(v)) \in Of(v) /\ \A q \in Of(v) : q.at <= Newest(Of(v)).at
  BY NewestIs, <1>1
<1>4. PICK c, n : c = Newest(P) /\ n = Newest(Of(v))
  OBVIOUS
<1>5. /\ c \in P /\ \A q \in P : q.at <= c.at
      /\ n \in Of(v) /\ \A q \in Of(v) : q.at <= n.at
  BY <1>2, <1>3, <1>4
<1>6. n \in P /\ c \in Of(v) /\ c.at \in Nat /\ n.at \in Nat
  BY <1>5, Numbers DEF Recent, Of, Stored, Position
<1>7. c.at = n.at
  <2>1. n.at <= c.at /\ c.at <= n.at
    BY <1>5, <1>6
  <2> QED
    BY <1>6, <2>1
<1>8. c = n
  BY <1>5, <1>6, <1>7 DEF Of, Stored
<1> QED
  BY <1>4, <1>8 DEF Current

\* What a scan writes is a meeting, open exactly if the vessels are still together.
LEMMA MeetingsMeet ==
  ASSUME Stored, NEW m \in Meetings
  PROVE  Meet(m) /\ (m.ended = NoTime <=> Together(m.a, m.b))
<1>1. PICK a \in cast.vessels, b \in cast.vessels : Meets(a, b) /\ m = RowOf(a, b)
  BY MeetingsAre
<1>2. /\ Close(a, b) \in SUBSET Nat /\ Close(a, b) # {} /\ now \in Nat /\ \A t \in Close(a, b) : t <= now
      /\ \A t : t \in Close(a, b)
                  <=> \E p, r : /\ Near(a, b, p, r) /\ p.at = t
                                /\ p.at > now - MeetLookback /\ r.at > now - MeetLookback
  BY <1>1, CloseIs DEF Meets, Stored
<1>3. PICK f, l : f = First(Close(a, b)) /\ l = Last(Close(a, b))
  OBVIOUS
<1>4. f \in Close(a, b) /\ \A t \in Close(a, b) : f <= t
  BY <1>2, <1>3, FirstIs
<1>5. l \in Close(a, b)
  BY <1>2, <1>3, LastIs
<1>6. m.a = a /\ m.b = b /\ m.started = f
  BY <1>1, <1>3 DEF RowOf
<1>7. l - f >= MeetMinimum /\ Before(a, b)
  BY <1>1, <1>3 DEF Meets
<1>8. PICK p, r : /\ Near(a, b, p, r) /\ p.at = f
                  /\ p.at > now - MeetLookback /\ r.at > now - MeetLookback
  BY <1>2, <1>4
<1>9. \A q, u : Near(a, b, q, u) /\ q.at < f => q.at <= now - MeetLookback \/ u.at <= now - MeetLookback
  <2> SUFFICES ASSUME NEW q, NEW u, Near(a, b, q, u), q.at < f,
                      ~(q.at <= now - MeetLookback), ~(u.at <= now - MeetLookback)
               PROVE  FALSE
    OBVIOUS
  <2>1. q.at \in Nat /\ u.at \in Nat
    BY NearIs
  <2>2. q.at > now - MeetLookback /\ u.at > now - MeetLookback
    BY <1>2, <2>1, Numbers
  <2>3. f <= q.at /\ f \in Nat
    BY <1>2, <1>4, <2>2
  <2> QED
    BY <2>1, <2>3
<1>10. Passed(a, f) /\ Passed(b, f)
  <2>1. PICK q, u : Near(a, b, q, u) /\ q.at = l
    BY <1>2, <1>5
  <2>2. q \in Of(a) /\ u \in Of(b) /\ BucketOf(u.at) = BucketOf(l) /\ BucketOf(q.at) = BucketOf(l)
    BY <2>1, NearIs
  <2>3. f \in Nat /\ l \in Nat /\ f + MeetBucket <= l
    BY <1>2, <1>4, <1>5, <1>7, Numbers
  <2>4. BucketOf(f) < BucketOf(l)
    BY <2>3, Buckets
  <2> QED
    BY <2>2, <2>4 DEF Passed
<1>11. f \in Nat
  BY <1>2, <1>4
<1>12. Meet(m)
  BY <1>6, <1>7, <1>8, <1>9, <1>10, <1>11 DEF Meet
<1>13. Current(a).place = Newest(Of(a)).place /\ Current(b).place = Newest(Of(b)).place
  BY <1>8, NearIs, CurrentIs
<1>14. l # NoTime
  BY <1>2, <1>5, Numbers
<1>15. m.ended = IF Current(a).place = Current(b).place THEN NoTime ELSE l
  BY <1>1, <1>3 DEF RowOf
<1>16. m.ended = NoTime <=> Together(a, b)
  BY <1>13, <1>14, <1>15 DEF Together
<1> QED
  BY <1>6, <1>12, <1>16

\* A row that stands is found again.
LEMMA MeetingsAgain ==
  ASSUME Stored, NEW m, Meet(m), Standing(m)
  PROVE  \E n \in Meetings : SameTransfer(m, n)
<1>1. PICK a, b, s : a = m.a /\ b = m.b /\ s = m.started
  OBVIOUS
<1>2. /\ a \in cast.vessels /\ b \in cast.vessels /\ Before(a, b) /\ s \in Nat
      /\ \A p, r : Near(a, b, p, r) /\ p.at < s
                     => p.at <= now - MeetLookback \/ r.at <= now - MeetLookback
  BY <1>1 DEF Meet
<1>3. PICK p, r : Near(a, b, p, r) /\ p.at = s
  BY <1>1 DEF Meet
<1>4. PICK e \in PairTimes(positions, a, b) : e - s >= MeetMinimum
  BY <1>1 DEF Standing
<1>5. PICK q, u : Near(a, b, q, u) /\ q.at = e
  BY <1>4, PairTimesAre
<1>6. BucketOf(s) > now - MeetLookback /\ now \in Nat /\ MeetLookback \in Nat /\ MeetMinimum \in Nat
  BY <1>1, Numbers DEF Standing, Stored
<1>7. p.at > now - MeetLookback /\ r.at > now - MeetLookback
  <2>1. /\ BucketOf(s) \in Nat /\ p.at \in Nat /\ r.at \in Nat
        /\ BucketOf(s) <= p.at /\ BucketOf(s) <= r.at
    BY <1>3, NearIs
  <2> QED
    BY <1>6, <2>1
<1>8. q.at > now - MeetLookback /\ u.at > now - MeetLookback /\ e \in Nat /\ s <= e
  <2>1. /\ BucketOf(e) \in Nat /\ q.at \in Nat /\ u.at \in Nat
        /\ BucketOf(e) <= q.at /\ BucketOf(e) <= u.at
    BY <1>5, NearIs
  <2>2. e \in Nat /\ s <= e
    BY <1>2, <1>4, <1>5, <1>6, <2>1
  <2>3. BucketOf(s) <= BucketOf(e) /\ BucketOf(s) \in Nat
    BY <1>2, <2>2, Buckets
  <2> QED
    BY <1>6, <2>1, <2>2, <2>3
<1>9. /\ Close(a, b) \in SUBSET Nat /\ \A t \in Close(a, b) : t <= now
      /\ \A t : t \in Close(a, b)
                  <=> \E p1, r1 : /\ Near(a, b, p1, r1) /\ p1.at = t
                                  /\ p1.at > now - MeetLookback /\ r1.at > now - MeetLookback
  BY CloseIs
<1>10. s \in Close(a, b) /\ e \in Close(a, b)
  BY <1>3, <1>5, <1>7, <1>8, <1>9
<1>11. PICK f, l : f = First(Close(a, b)) /\ l = Last(Close(a, b))
  OBVIOUS
<1>12. f \in Close(a, b) /\ f <= s
  BY <1>9, <1>10, <1>11, FirstIs
<1>13. l \in Close(a, b) /\ e <= l
  BY <1>6, <1>9, <1>10, <1>11, LastIs
<1>14. f = s
  <2>1. PICK p1, r1 : /\ Near(a, b, p1, r1) /\ p1.at = f
                      /\ p1.at > now - MeetLookback /\ r1.at > now - MeetLookback
    BY <1>9, <1>12
  <2>2. p1.at \in Nat /\ r1.at \in Nat
    BY <2>1, NearIs
  <2>3. ~(p1.at <= now - MeetLookback \/ r1.at <= now - MeetLookback)
    BY <1>6, <2>1, <2>2
  <2>4. ~(f < s)
    BY <1>2, <2>1, <2>3
  <2> QED
    BY <1>2, <1>12, <2>1, <2>2, <2>4
<1>15. l - f >= MeetMinimum
  BY <1>2, <1>4, <1>6, <1>8, <1>9, <1>13, <1>14
<1>16. Meets(a, b)
  BY <1>2, <1>10, <1>11, <1>15 DEF Meets
<1>17. RowOf(a, b) \in Meetings
  BY <1>2, <1>16, MeetingsAre
<1>18. SameTransfer(m, RowOf(a, b))
  BY <1>1, <1>11, <1>14 DEF SameTransfer, RowOf
<1> QED
  BY <1>17, <1>18

\* Points, rows and places stay what they are while the positions do.
LEMMA SamePoints ==
  ASSUME UNCHANGED <<cast, positions>>
  PROVE  /\ \A a, b, p, r : Near(a, b, p, r)' <=> Near(a, b, p, r)
         /\ \A v, t : Passed(v, t)' <=> Passed(v, t)
         /\ \A a, b : Together(a, b)' <=> Together(a, b)
         /\ now' = now => \A m : (Meet(m)' <=> Meet(m)) /\ (Standing(m)' <=> Standing(m))
<1>1. \A v : Of(v)' = Of(v)
  BY DEF Of
<1>2. \A v : Snapshot(positions, v)' = Snapshot(positions, v)
  BY <1>1 DEF Snapshot, SlowIn
<1>3. \A a, b, p, r : Near(a, b, p, r)' <=> Near(a, b, p, r)
  BY <1>2 DEF Near
<1>4. \A v, t : Passed(v, t)' <=> Passed(v, t)
  BY <1>1 DEF Passed
<1>5. \A a, b : Together(a, b)' <=> Together(a, b)
  BY <1>1 DEF Together
<1>6. \A a, b : PairTimes(positions, a, b)' = PairTimes(positions, a, b)
  BY <1>2 DEF PairTimes
<1>7. ASSUME now' = now, NEW m
      PROVE  (Meet(m)' <=> Meet(m)) /\ (Standing(m)' <=> Standing(m))
  <2>1. Meet(m)' <=> Meet(m)
    BY <1>3, <1>4, <1>7 DEF Meet
  <2>2. Standing(m)' <=> Standing(m)
    BY <1>6, <1>7 DEF Standing
  <2> QED
    BY <2>1, <2>2
<1> QED
  BY <1>3, <1>4, <1>5, <1>7

\* A scan leaves rows of meetings, those that stand up to date.
LEMMA ScanTransfersSettles ==
  ASSUME Stored, Met, ScanTransfers
  PROVE  Met' /\ Settled'
<1>1. /\ transfers' = Meetings \cup {m \in transfers : ~\E n \in Meetings : SameTransfer(m, n)}
      /\ UNCHANGED <<cast, now, positions, late>>
  BY DEF ScanTransfers
<1>2. /\ \A m : (Meet(m)' <=> Meet(m)) /\ (Standing(m)' <=> Standing(m))
      /\ \A a, b : Together(a, b)' <=> Together(a, b)
  BY <1>1, SamePoints
<1>3. Met'
  BY <1>1, <1>2, MeetingsMeet DEF Met
<1>4. ASSUME ~late, NEW m \in transfers', Standing(m)
      PROVE  m.ended = NoTime <=> Together(m.a, m.b)
  <2>1. CASE m \in Meetings
    BY <2>1, MeetingsMeet
  <2>2. CASE m \in transfers /\ ~\E n \in Meetings : SameTransfer(m, n)
    BY <1>4, <2>2, MeetingsAgain DEF Met
  <2> QED
    BY <1>1, <2>1, <2>2
<1>5. Settled'
  BY <1>1, <1>2, <1>4 DEF Settled
<1> QED
  BY <1>3, <1>5

\* A report that comes in order leaves the points of the buckets its vessel has
\* passed as they are.
LEMMA PointsStay ==
  ASSUME Stored, NEW x \in Position, positions' = positions \cup {x},
         \A p \in positions : p.mmsi = x.mmsi => p.at < x.at,
         NEW w, NEW s \in Nat, Passed(w, s)
  PROVE  /\ Passed(w, s)'
         /\ \A p : BucketOf(p.at) <= BucketOf(s)
                     => (p \in Snapshot(positions, w)' <=> p \in Snapshot(positions, w))
<1>1. PICK q \in Of(w) : BucketOf(s) < BucketOf(q.at)
  BY DEF Passed
<1>2. Of(w)' = Of(w) \cup (IF x.mmsi = w THEN {x} ELSE {})
  BY DEF Of
<1>3. Passed(w, s)'
  BY <1>1, <1>2 DEF Passed
<1>4. x.mmsi = w => BucketOf(s) < BucketOf(x.at)
  <2>1. q.at \in Nat /\ x.at \in Nat /\ (x.mmsi = w => q.at <= x.at)
    BY <1>1 DEF Of, Stored, Position
  <2>2. BucketOf(s) \in Nat /\ BucketOf(q.at) \in Nat /\ BucketOf(x.at) \in Nat
    BY <2>1, Buckets
  <2>3. x.mmsi = w => BucketOf(q.at) <= BucketOf(x.at)
    BY <2>1, Buckets
  <2> QED
    BY <1>1, <2>2, <2>3
<1>5. BucketOf(s) \in Nat /\ BucketOf(x.at) \in Nat
  BY Buckets DEF Position
<1>6. \A p : p \in SlowIn(positions, w)' <=>
               \/ p \in SlowIn(positions, w)
               \/ x.mmsi = w /\ p = x /\ x.place \in Slow /\ PortOf(x.place) = NoPort
  BY <1>2 DEF SlowIn, Of
<1>7. ASSUME NEW p, BucketOf(p.at) <= BucketOf(s)
      PROVE  p \in Snapshot(positions, w)' <=> p \in Snapshot(positions, w)
  <2>1. x.mmsi = w => BucketOf(p.at) # BucketOf(x.at)
    BY <1>4, <1>5, <1>7
  <2>2. p \in SlowIn(positions, w)' <=> p \in SlowIn(positions, w)
    BY <1>6, <2>1
  <2>3. /\ p \in Snapshot(positions, w)' <=>
              /\ p \in SlowIn(positions, w)'
              /\ \A u \in SlowIn(positions, w)' : BucketOf(u.at) = BucketOf(p.at) => u.at <= p.at
        /\ p \in Snapshot(positions, w) <=>
              /\ p \in SlowIn(positions, w)
              /\ \A u \in SlowIn(positions, w) : BucketOf(u.at) = BucketOf(p.at) => u.at <= p.at
    BY DEF Snapshot
  <2> QED
    BY <1>6, <2>1, <2>2, <2>3
<1> QED
  BY <1>3, <1>7

\* A report in order leaves a row what it is.
LEMMA ReportKeepsMeeting ==
  ASSUME Stored, Stored', NEW x \in Position, positions' = positions \cup {x}, UNCHANGED <<cast, now>>,
         \A p \in positions : p.mmsi = x.mmsi => p.at < x.at,
         NEW m, Meet(m)
  PROVE  Meet(m)'
<1>1. m.started \in Nat /\ Passed(m.a, m.started) /\ Passed(m.b, m.started)
  BY DEF Meet
<1>2. /\ Passed(m.a, m.started)' /\ Passed(m.b, m.started)'
      /\ \A p : BucketOf(p.at) <= BucketOf(m.started)
                  => /\ p \in Snapshot(positions, m.a)' <=> p \in Snapshot(positions, m.a)
                     /\ p \in Snapshot(positions, m.b)' <=> p \in Snapshot(positions, m.b)
  BY <1>1, PointsStay
<1>3. \A p, r : BucketOf(p.at) <= BucketOf(m.started)
                  => (Near(m.a, m.b, p, r)' <=> Near(m.a, m.b, p, r))
  BY <1>2 DEF Near
<1>4. \E p, r : Near(m.a, m.b, p, r)' /\ p.at = m.started
  <2>1. PICK p, r : Near(m.a, m.b, p, r) /\ p.at = m.started
    BY DEF Meet
  <2>2. BucketOf(p.at) <= BucketOf(m.started)
    BY <1>1, <2>1, Buckets
  <2> QED
    BY <1>3, <2>1, <2>2
<1>5. ASSUME NEW p, NEW r, Near(m.a, m.b, p, r)', p.at < m.started
      PROVE  p.at <= now - MeetLookback \/ r.at <= now - MeetLookback
  <2>1. p \in Of(m.a)'
    BY <1>5 DEF Near, Snapshot, SlowIn
  <2>2. p.at \in Nat
    BY <2>1 DEF Of, Stored, Position
  <2>3. BucketOf(p.at) <= BucketOf(m.started)
    BY <1>1, <1>5, <2>2, Buckets
  <2> QED
    BY <1>3, <1>5, <2>3 DEF Meet
<1> QED
  BY <1>2, <1>4, <1>5 DEF Meet

\* Every step keeps what is known of transfers.
LEMMA StepKeepsTransfers ==
  ASSUME Stored, Met, Settled, [Next]_vars
  PROVE  Met' /\ Settled'
<1>1. CASE \E v \in cast.vessels, t \in 0 .. MaxTime, place \in cast.places : Report(v, t, place)
  <2>1. PICK v \in cast.vessels, t \in 0 .. MaxTime, place \in cast.places : Report(v, t, place)
    BY <1>1
  <2>2. PICK x \in Position :
           /\ positions' = positions \cup {x} /\ x.mmsi = v
           /\ ~late' => ~late /\ \A p \in positions : p.mmsi = v => p.at < x.at
    BY <2>1, Reported
  <2>3. UNCHANGED <<cast, now, transfers>> /\ fresh' = {}
    BY <2>1 DEF Report, tables
  <2>4. Stored'
    BY StepKeepsStored
  <2>5. ASSUME ~late', NEW m \in transfers
        PROVE  Meet(m)'
    BY <2>2, <2>3, <2>4, <2>5, ReportKeepsMeeting DEF Met
  <2> QED
    BY <2>3, <2>5 DEF Met, Settled
<1>2. CASE Tick
  <2>1. UNCHANGED <<cast, positions, transfers, late>> /\ fresh' = {} /\ now' = now + 1
    BY <1>2 DEF Tick, tables
  <2>2. /\ \A a, b, p, r : Near(a, b, p, r)' <=> Near(a, b, p, r)
        /\ \A v, t : Passed(v, t)' <=> Passed(v, t)
    BY <2>1, SamePoints
  <2>3. ASSUME NEW m, Meet(m)
        PROVE  Meet(m)'
    <3>1. \A t \in Nat : t <= now - MeetLookback => t <= now' - MeetLookback
      BY <2>1, Numbers DEF Stored
    <3>2. ASSUME NEW p, NEW r, Near(m.a, m.b, p, r), p.at < m.started
          PROVE  p.at <= now' - MeetLookback \/ r.at <= now' - MeetLookback
      <4>1. p.at <= now - MeetLookback \/ r.at <= now - MeetLookback
        BY <2>3, <3>2 DEF Meet
      <4>2. p.at \in Nat /\ r.at \in Nat
        BY <3>2, NearIs
      <4> QED
        BY <3>1, <4>1, <4>2
    <3> QED
      BY <2>1, <2>2, <2>3, <3>2 DEF Meet
  <2> QED
    BY <2>1, <2>3 DEF Met, Settled
<1>3. CASE ScanTransfers
  BY <1>3, ScanTransfersSettles
<1>4. CASE UNCHANGED <<cast, now, positions, transfers, late>>
           /\ ("transfers" \in fresh' => "transfers" \in fresh)
  <2>1. /\ \A m : (Meet(m)' <=> Meet(m)) /\ (Standing(m)' <=> Standing(m))
        /\ \A a, b : Together(a, b)' <=> Together(a, b)
    BY <1>4, SamePoints
  <2> QED
    BY <1>4, <2>1 DEF Met, Settled
<1>5. ASSUME NEW b \in backfills, Backfill(b) \/ Clean(b)
      PROVE  UNCHANGED <<cast, now, positions, transfers, late, fresh>>
  BY <1>5 DEF Backfill, Clean
<1>6. ScanCalls \/ ScanGaps \/ GapScanFails \/ ScanFence \/ ScanHoles \/ UNCHANGED vars
        => UNCHANGED <<cast, now, positions, transfers, late>>
           /\ ("transfers" \in fresh' => "transfers" \in fresh)
  BY DEF ScanCalls, ScanGaps, GapScanFails, ScanFence, ScanHoles, vars, tables, Ended
<1> QED
  BY <1>1, <1>2, <1>3, <1>4, <1>5, <1>6 DEF Next

\* After a transfer scan a row whose first bucket is in the window as a whole, and
\* whose meeting is still read to last, is open exactly if its vessels are together
\* (sts.go), as long as positions come in order.
THEOREM TransfersMatchPairsHolds == Spec => []TransfersMatchPairs
<1>1. Init => Stored /\ Met /\ Settled
  BY InitStored DEF Init, Met, Settled
<1>2. Stored /\ Met /\ Settled /\ [Next]_vars => (Stored /\ Met /\ Settled)'
  BY StepKeepsStored, StepKeepsTransfers
<1>3. Settled => TransfersMatchPairs
  BY DEF Settled, Together, TransfersMatchPairs
<1> QED
  BY <1>1, <1>2, <1>3, PTL DEF Spec

-----------------------------------------------------------------------------
(* Calls.                                                                  *)

\* No scan joins r to the call c: the vessel was elsewhere between the two, or r
\* is outside any window to come.
Apart(c, r) ==
  \/ \E q \in Of(c.mmsi) : r.at <= q.at /\ q.at < c.arrived /\ PortOf(q.place) # c.port
  \/ r.at < now - CallLookback /\ \A k \in OpenCalls(c.mmsi) : r.at < k.arrived

\* An open call began with a position, has lasted for the minimum, and begins where
\* its stay does.
Stays(c) ==
  /\ c.mmsi \in cast.vessels /\ c.arrived \in Nat /\ c.port # NoPort
  /\ \E a \in Of(c.mmsi) : a.at = c.arrived
  /\ \E e \in Of(c.mmsi) : e.at - c.arrived >= CallMinimum /\ InPort(c, Between(c.mmsi, c.arrived, e.at))
  /\ \A r \in Of(c.mmsi) : r.at < c.arrived => Apart(c, r)

\* A call that has ended was a stay, and the vessel was elsewhere right after it.
Left(c) ==
  /\ c.arrived \in Nat /\ c.departed \in Nat /\ c.departed - c.arrived >= CallMinimum
  /\ InPort(c, Between(c.mmsi, c.arrived, c.departed))
  /\ \E p \in Of(c.mmsi) : /\ PortOf(p.place) # c.port
                           /\ Between(c.mmsi, c.departed + 1, p.at) = {p}

CallInv == ~late => \A c \in calls : IF c.departed = NoTime THEN Stays(c) ELSE Left(c)

\* After a scan, open means still there.
Lying ==
  "calls" \in fresh /\ ~late =>
    \A c \in calls : c.departed = NoTime => InPort(c, Between(c.mmsi, c.arrived, now))

\* The window, and that it is closed upwards.
LEMMA WindowIs ==
  ASSUME NEW v, NEW p
  PROVE  p \in Window(v) <=>
           /\ p \in Of(v)
           /\ \/ \E c \in OpenCalls(v) : p.at >= c.arrived
              \/ Recent(CallLookback) \cap Of(v) # {} /\ p.at >= now - CallLookback
<1> DEFINE starts == {c.arrived : c \in OpenCalls(v)}
                     \cup IF Recent(CallLookback) \cap Of(v) # {} THEN {now - CallLookback} ELSE {}
<1>1. p \in Window(v) <=> p \in Of(v) /\ \E s \in starts : p.at >= s
  BY DEF Window
<1>2. \A s : s \in starts <=> \/ \E c \in OpenCalls(v) : s = c.arrived
                              \/ Recent(CallLookback) \cap Of(v) # {} /\ s = now - CallLookback
  OBVIOUS
<1> HIDE DEF starts
<1> QED
  BY <1>1, <1>2

\* Open calls stay.
LEMMA OpenCallsStay ==
  ASSUME CallInv, ~late, NEW v, NEW c \in OpenCalls(v)
  PROVE  Stays(c) /\ c.mmsi = v /\ c \in calls /\ c.departed = NoTime
  BY DEF CallInv, OpenCalls

\* A window holds whatever is newer than one of its positions.
LEMMA WindowIsUpward ==
  ASSUME Stored, CallInv, ~late, NEW v, NEW p \in Window(v), NEW q \in Of(v), p.at <= q.at
  PROVE  q \in Window(v)
<1>1. p \in Of(v)
  BY WindowIs
<1>2. p.at \in Nat /\ q.at \in Nat /\ now \in Nat
  BY <1>1 DEF Of, Stored, Position
<1>3. \A c \in OpenCalls(v) : c.arrived \in Nat
  BY OpenCallsStay DEF Stays
<1>4. CASE \E c \in OpenCalls(v) : p.at >= c.arrived
  BY <1>2, <1>3, <1>4, WindowIs
<1>5. CASE Recent(CallLookback) \cap Of(v) # {} /\ p.at >= now - CallLookback
  <2>1. q.at >= now - CallLookback
    BY <1>2, <1>5, Numbers
  <2> QED
    BY <1>5, <2>1, WindowIs
<1> QED
  BY <1>4, <1>5, WindowIs

\* What is outside a window that has something in it is older than the lookback.
LEMMA OutsideIsOld ==
  ASSUME Stored, CallInv, ~late, NEW v, NEW q \in Window(v), NEW r \in Of(v), r \notin Window(v)
  PROVE  r.at < q.at /\ r.at < now - CallLookback
<1>1. q \in Of(v)
  BY WindowIs
<1>2. q.at \in Nat /\ r.at \in Nat /\ now \in Nat /\ q \in positions
  BY <1>1 DEF Of, Stored, Position
<1>3. r.at < q.at
  BY <1>1, <1>2, WindowIsUpward
<1>4. CASE Recent(CallLookback) \cap Of(v) # {}
  BY <1>2, <1>3, <1>4, WindowIs, Numbers
<1>5. CASE Recent(CallLookback) \cap Of(v) = {}
  <2>1. ~(q.at > now - CallLookback)
    BY <1>1, <1>2, <1>5 DEF Recent
  <2>2. q.at <= now - CallLookback
    BY <1>2, <2>1, Numbers
  <2> QED
    BY <1>2, <1>3, <2>2, Numbers
<1> QED
  BY <1>3, <1>4, <1>5

\* A stay is a run of positions in one port, and elsewhere right before and after it.
LEMMA IslandIs ==
  ASSUME Stored, CallInv, ~late, NEW v, NEW p \in Window(v)
  PROVE  \E a, e \in Window(v) :
           /\ Oldest(Island(v, p)) = a /\ Newest(Island(v, p)) = e /\ a.at <= p.at /\ p.at <= e.at
           /\ \A r \in Island(v, p) : a.at <= r.at /\ r.at <= e.at
           /\ \A r \in Of(v) : a.at <= r.at /\ r.at <= e.at => PortOf(r.place) = PortOf(p.place)
           /\ \A r \in Window(v) : r.at < a.at =>
                \E q \in Window(v) : r.at <= q.at /\ q.at < a.at /\ PortOf(q.place) # PortOf(p.place)
           /\ \A r \in Window(v) : e.at < r.at =>
                \E q \in Window(v) : e.at < q.at /\ q.at <= r.at /\ PortOf(q.place) # PortOf(p.place)
<1> DEFINE s == Island(v, p)
           In(r) == PortOf(r.place) = PortOf(p.place)
<1>1. \A r : r \in Window(v) => r \in Of(v) /\ r \in positions /\ r.at \in Nat
  BY WindowIs DEF Of, Stored, Position
<1>2. \A q : q \in s <=> /\ q \in Window(v)
                         /\ \A r \in Window(v) : (p.at <= r.at /\ r.at <= q.at) \/ (q.at <= r.at /\ r.at <= p.at) => In(r)
  BY DEF Island
<1>3. p \in s
  <2>1. ASSUME NEW r \in Window(v), (p.at <= r.at /\ r.at <= p.at) \/ (p.at <= r.at /\ r.at <= p.at)
        PROVE  r = p
    <3>1. r.at = p.at /\ r \in Of(v) /\ p \in Of(v)
      BY <1>1, <2>1
    <3> QED
      BY <3>1 DEF Of, Stored
  <2> QED
    BY <1>2, <2>1
<1>4. s \in SUBSET positions /\ s # {}
  BY <1>1, <1>2, <1>3
<1> HIDE DEF s
<1>5. PICK a, e : a = Oldest(s) /\ e = Newest(s)
  OBVIOUS
<1>6. a \in s /\ \A q \in s : a.at <= q.at
  BY <1>4, <1>5, OldestIs
<1>7. e \in s /\ \A q \in s : q.at <= e.at
  BY <1>4, <1>5, NewestIs
<1>8. a \in Window(v) /\ e \in Window(v) /\ a.at <= p.at /\ p.at <= e.at /\ a.at \in Nat /\ e.at \in Nat
  BY <1>1, <1>2, <1>3, <1>6, <1>7
<1>9. \A r \in Window(v) : a.at <= r.at /\ r.at <= p.at => In(r)
  BY <1>2, <1>6
<1>10. \A r \in Window(v) : p.at <= r.at /\ r.at <= e.at => In(r)
  BY <1>2, <1>7
<1>11. ASSUME NEW r \in Of(v), a.at <= r.at, r.at <= e.at
       PROVE  In(r)
  <2>1. r \in Window(v)
    BY <1>8, <1>11, WindowIsUpward
  <2> QED
    BY <1>1, <1>8, <1>9, <1>10, <1>11, <2>1
<1>12. ASSUME NEW r \in Window(v), r.at < a.at
       PROVE  \E q \in Window(v) : r.at <= q.at /\ q.at < a.at /\ ~In(q)
  <2>1. r \notin s /\ r.at \in Nat
    BY <1>1, <1>6, <1>8, <1>12
  <2>2. PICK q \in Window(v) : ((p.at <= q.at /\ q.at <= r.at) \/ (r.at <= q.at /\ q.at <= p.at)) /\ ~In(q)
    BY <1>2, <2>1
  <2>3. q.at \in Nat /\ p.at \in Nat
    BY <1>1
  <2>4. r.at <= q.at /\ q.at <= p.at
    BY <1>8, <1>12, <2>1, <2>2, <2>3
  <2>5. q.at < a.at
    BY <1>8, <1>9, <2>2, <2>3, <2>4
  <2> QED
    BY <2>2, <2>4, <2>5
<1>13. ASSUME NEW r \in Window(v), e.at < r.at
       PROVE  \E q \in Window(v) : e.at < q.at /\ q.at <= r.at /\ ~In(q)
  <2>1. r \notin s /\ r.at \in Nat
    BY <1>1, <1>7, <1>8, <1>13
  <2>2. PICK q \in Window(v) : ((p.at <= q.at /\ q.at <= r.at) \/ (r.at <= q.at /\ q.at <= p.at)) /\ ~In(q)
    BY <1>2, <2>1
  <2>3. q.at \in Nat /\ p.at \in Nat
    BY <1>1
  <2>4. p.at <= q.at /\ q.at <= r.at
    BY <1>8, <1>13, <2>1, <2>2, <2>3
  <2>5. e.at < q.at
    BY <1>8, <1>10, <2>2, <2>3, <2>4
  <2> QED
    BY <2>2, <2>4, <2>5
<1> QED
  BY <1>5, <1>6, <1>7, <1>8, <1>11, <1>12, <1>13 DEF s

\* The row of the stay of p.
CallOf(v, p) ==
  [mmsi |-> v, port |-> PortOf(Newest(Island(v, p)).place), arrived |-> Oldest(Island(v, p)).at,
   departed |-> IF Newest(Island(v, p)).at < Newest(Window(v)).at
                  THEN Newest(Island(v, p)).at ELSE NoTime]

LongEnough(v, p) == Newest(Island(v, p)).at - Oldest(Island(v, p)).at >= CallMinimum

\* A scan writes one row for each long enough stay in a port.
LEMMA VisitsAre ==
  ASSUME NEW v
  PROVE  \A d : d \in Visits(v) <=>
           \E p \in Window(v) : PortOf(p.place) # NoPort /\ LongEnough(v, p) /\ d = CallOf(v, p)
<1> DEFINE inPort == {q \in Window(v) : PortOf(q.place) # NoPort}
           stays == {Island(v, p) : p \in inPort}
           Row(s) == [mmsi |-> v, port |-> PortOf(Newest(s).place), arrived |-> Oldest(s).at,
                      departed |-> IF Newest(s).at < Newest(Window(v)).at THEN Newest(s).at ELSE NoTime]
           long == {t \in stays : Newest(t).at - Oldest(t).at >= CallMinimum}
<1>1. Visits(v) = {Row(s) : s \in long}
  BY DEF Visits
<1>2. \A p : Row(Island(v, p)) = CallOf(v, p)
  BY DEF CallOf
<1>3. \A s : s \in long <=> \E p \in inPort : s = Island(v, p) /\ LongEnough(v, p)
  BY DEF LongEnough
<1> HIDE DEF Row, long
<1> QED
  BY <1>1, <1>2, <1>3

\* The vessel was elsewhere between r and the arrival.
Broken(d, r) ==
  \E q \in Of(d.mmsi) : r.at <= q.at /\ q.at < d.arrived /\ PortOf(q.place) # d.port

\* What a row that a scan finds says is so.
LEMMA VisitsAreSound ==
  ASSUME Stored, CallInv, ~late, NEW v, NEW d \in Visits(v)
  PROVE  /\ d.mmsi = v /\ d.port # NoPort /\ d.arrived \in Nat
         /\ \E a \in Window(v) : a.at = d.arrived
         /\ \E e \in Of(v) : e.at - d.arrived >= CallMinimum /\ InPort(d, Between(v, d.arrived, e.at))
         /\ \A r \in Window(v) : r.at < d.arrived => Broken(d, r)
         /\ IF d.departed = NoTime THEN InPort(d, Between(v, d.arrived, now)) ELSE Left(d)
<1>1. PICK p \in Window(v) : PortOf(p.place) # NoPort /\ LongEnough(v, p) /\ d = CallOf(v, p)
  BY VisitsAre
<1>2. PICK a \in Window(v), e \in Window(v) :
        /\ Oldest(Island(v, p)) = a /\ Newest(Island(v, p)) = e /\ a.at <= p.at /\ p.at <= e.at
        /\ \A r \in Of(v) : a.at <= r.at /\ r.at <= e.at => PortOf(r.place) = PortOf(p.place)
        /\ \A r \in Window(v) : r.at < a.at =>
             \E q \in Window(v) : r.at <= q.at /\ q.at < a.at /\ PortOf(q.place) # PortOf(p.place)
        /\ \A r \in Window(v) : e.at < r.at =>
             \E q \in Window(v) : e.at < q.at /\ q.at <= r.at /\ PortOf(q.place) # PortOf(p.place)
  BY IslandIs
<1>3. PICK n : n = Newest(Window(v))
  OBVIOUS
<1>4. \A r : r \in Window(v) => r \in Of(v)
  BY WindowIs
<1>5. \A r \in Of(v) : r \in positions /\ r.at \in Nat /\ r.at <= now /\ r.mmsi = v
  BY DEF Of, Stored, Position
<1>6. n \in Window(v) /\ \A r \in Window(v) : r.at <= n.at
  <2>1. Window(v) \in SUBSET positions /\ Window(v) # {}
    BY <1>4, <1>5
  <2> QED
    BY <1>3, <2>1, NewestIs
<1>7. a \in Of(v) /\ e \in Of(v) /\ n \in Of(v) /\ p \in Of(v) /\ a.at <= e.at
  BY <1>2, <1>4, <1>5, <1>6
<1>8. PortOf(e.place) = PortOf(p.place)
  BY <1>2, <1>5, <1>7
<1>9. /\ d.mmsi = v /\ d.port = PortOf(p.place) /\ d.arrived = a.at
      /\ d.departed = IF e.at < n.at THEN e.at ELSE NoTime
      /\ e.at - a.at >= CallMinimum
  BY <1>1, <1>2, <1>3, <1>8 DEF CallOf, LongEnough
<1>10. InPort(d, Between(v, d.arrived, e.at))
  BY <1>2, <1>9 DEF InPort, Between
<1>11. \A r \in Window(v) : r.at < d.arrived => Broken(d, r)
  BY <1>2, <1>4, <1>9 DEF Broken
<1>12. CASE ~(e.at < n.at)
  <2>1. d.departed = NoTime
    BY <1>9, <1>12
  <2>2. ASSUME NEW r \in Of(v), a.at <= r.at
        PROVE  PortOf(r.place) = PortOf(p.place)
    <3>1. r \in Window(v)
      BY <2>2, WindowIsUpward
    <3>2. r.at <= n.at
      BY <1>6, <3>1
    <3>3. r.at <= e.at
      BY <1>5, <1>7, <1>12, <3>2
    <3> QED
      BY <1>2, <2>2, <3>3
  <2>3. InPort(d, Between(v, d.arrived, now))
    BY <1>9, <2>2 DEF InPort, Between
  <2> QED
    BY <1>1, <1>5, <1>7, <1>9, <1>10, <1>11, <2>1, <2>3
<1>13. CASE e.at < n.at
  <2> DEFINE N == {r \in Of(v) : e.at < r.at}
  <2>1. N \in SUBSET positions /\ N # {}
    BY <1>5, <1>7, <1>13
  <2>2. PICK x \in N : \A r \in N : x.at <= r.at
    BY <2>1, OldestIs
  <2>3. x \in Of(v) /\ e.at < x.at /\ x \in Window(v)
    <3>1. x \in Of(v) /\ e.at < x.at
      BY <2>2
    <3>2. e.at <= x.at
      BY <1>5, <1>7, <3>1
    <3> QED
      BY <3>1, <3>2, WindowIsUpward
  <2>4. \A r \in Of(v) : r.at = x.at => r = x
    BY <2>3 DEF Of, Stored
  <2>5. PICK q \in Window(v) : e.at < q.at /\ q.at <= x.at /\ PortOf(q.place) # PortOf(p.place)
    BY <1>2, <2>3
  <2>6. q = x
    <3>1. q \in Of(v) /\ q \in N
      BY <1>4, <2>5
    <3>2. x.at <= q.at
      BY <2>2, <3>1
    <3>3. q.at = x.at
      BY <1>5, <2>3, <2>5, <3>1, <3>2
    <3> QED
      BY <2>4, <3>1, <3>3
  <2>7. PortOf(x.place) # d.port
    BY <1>9, <2>5, <2>6
  <2>8. ASSUME NEW r \in Of(v), e.at + 1 <= r.at, r.at <= x.at
        PROVE  r = x
    <3>1. e.at < r.at
      BY <1>5, <1>7, <2>8
    <3>2. x.at <= r.at
      BY <2>2, <3>1
    <3> QED
      BY <1>5, <2>3, <2>4, <2>8, <3>2
  <2>9. e.at + 1 <= x.at
    BY <1>5, <1>7, <2>3
  <2>10. Between(v, e.at + 1, x.at) = {x}
    BY <1>5, <2>3, <2>8, <2>9 DEF Between
  <2>11. d.departed = e.at /\ d.departed # NoTime /\ d.departed \in Nat
    BY <1>5, <1>7, <1>9, <1>13, Numbers
  <2>12. Left(d)
    BY <1>5, <1>7, <1>9, <1>10, <2>3, <2>7, <2>10, <2>11 DEF Left
  <2> QED
    BY <1>1, <1>5, <1>7, <1>9, <1>10, <1>11, <2>11, <2>12
<1> QED
  BY <1>12, <1>13

\* Every open call is found again.
LEMMA CallsAreFoundAgain ==
  ASSUME Stored, CallInv, ~late, NEW v, NEW c \in OpenCalls(v)
  PROVE  \E d \in Visits(v) : SameCall(c, d)
<1>1. Stays(c) /\ c.mmsi = v
  BY OpenCallsStay
<1>2. c.arrived \in Nat /\ c.port # NoPort
  BY <1>1 DEF Stays
<1>3. PICK p \in Of(v) : p.at = c.arrived
  BY <1>1 DEF Stays
<1>4. PICK f \in Of(v) : f.at - c.arrived >= CallMinimum /\ InPort(c, Between(v, c.arrived, f.at))
  BY <1>1 DEF Stays
<1>5. \A r \in Of(v) : r.at \in Nat
  BY DEF Of, Stored, Position
<1>6. c.arrived <= f.at
  BY <1>2, <1>4, <1>5, Numbers
<1>7. \A r \in Of(v) : c.arrived <= r.at /\ r.at <= f.at => PortOf(r.place) = c.port
  BY <1>4 DEF InPort, Between
<1>8. PortOf(p.place) = c.port
  BY <1>2, <1>3, <1>6, <1>7
<1>9. p \in Window(v) /\ f \in Window(v)
  BY <1>2, <1>3, <1>5, <1>6, WindowIs
<1>10. PICK a \in Window(v), e \in Window(v) :
        /\ Oldest(Island(v, p)) = a /\ Newest(Island(v, p)) = e /\ a.at <= p.at /\ p.at <= e.at
        /\ \A r \in Of(v) : a.at <= r.at /\ r.at <= e.at => PortOf(r.place) = PortOf(p.place)
        /\ \A r \in Window(v) : e.at < r.at =>
             \E q \in Window(v) : e.at < q.at /\ q.at <= r.at /\ PortOf(q.place) # PortOf(p.place)
  BY <1>9, IslandIs
<1>11. a \in Of(v) /\ e \in Of(v) /\ \A r \in Window(v) : r \in Of(v)
  BY WindowIs
<1>12. a.at = c.arrived
  <2> SUFFICES ASSUME a.at < c.arrived
               PROVE  FALSE
    BY <1>2, <1>3, <1>5, <1>10, <1>11
  <2>1. Apart(c, a)
    BY <1>1, <1>11 DEF Stays
  <2>2. CASE \E q \in Of(v) : a.at <= q.at /\ q.at < c.arrived /\ PortOf(q.place) # c.port
    <3>1. PICK q \in Of(v) : a.at <= q.at /\ q.at < c.arrived /\ PortOf(q.place) # c.port
      BY <2>2
    <3>2. q.at <= e.at
      BY <1>3, <1>5, <1>10, <1>11, <3>1
    <3> QED
      BY <1>8, <1>10, <3>1, <3>2
  <2>3. CASE a.at < now - CallLookback /\ \A k \in OpenCalls(v) : a.at < k.arrived
    <3>1. \A k \in OpenCalls(v) : k.arrived \in Nat
      BY OpenCallsStay DEF Stays
    <3>2. ~(a.at >= now - CallLookback) /\ \A k \in OpenCalls(v) : ~(a.at >= k.arrived)
      BY <1>5, <1>11, <2>3, <3>1, Numbers DEF Stored
    <3> QED
      BY <3>2, WindowIs
  <2> QED
    BY <1>1, <2>1, <2>2, <2>3 DEF Apart
<1>13. f.at <= e.at
  <2> SUFFICES ASSUME e.at < f.at
               PROVE  FALSE
    BY <1>5, <1>11
  <2>1. PICK q \in Window(v) : e.at < q.at /\ q.at <= f.at /\ PortOf(q.place) # PortOf(p.place)
    BY <1>9, <1>10
  <2>2. q \in Of(v) /\ c.arrived <= q.at
    BY <1>2, <1>3, <1>5, <1>10, <1>11, <2>1
  <2> QED
    BY <1>7, <1>8, <2>1, <2>2
<1>14. LongEnough(v, p)
  <2>1. e.at - a.at >= CallMinimum
    BY <1>2, <1>4, <1>5, <1>11, <1>12, <1>13, Numbers
  <2> QED
    BY <1>10, <2>1 DEF LongEnough
<1>15. CallOf(v, p) \in Visits(v)
  BY <1>2, <1>8, <1>9, <1>14, VisitsAre
<1>16. PortOf(e.place) = c.port
  BY <1>5, <1>8, <1>10, <1>11, <1>12, <1>3
<1>17. SameCall(c, CallOf(v, p))
  BY <1>1, <1>10, <1>12, <1>16 DEF SameCall, CallOf
<1> QED
  BY <1>15, <1>17

\* A scan leaves stays only, its open calls among those it found.
LEMMA ScanCallsFinds ==
  ASSUME Stored, CallInv, ScanCalls
  PROVE  CallInv' /\ Lying'
<1> DEFINE found == UNION {Visits(v) : v \in cast.vessels}
<1>1. /\ calls' = found \cup {c \in calls : ~\E d \in found : SameCall(c, d)}
      /\ UNCHANGED <<cast, now, positions, late>>
  BY DEF ScanCalls
<1>2. CASE late
  BY <1>1, <1>2 DEF CallInv, Lying
<1>3. CASE ~late
  <2>1. \A d : d \in found <=> \E v \in cast.vessels : d \in Visits(v)
    OBVIOUS
  <2> HIDE DEF found
  <2>2. /\ \A v : Of(v)' = Of(v)
        /\ \A v, t, u : Between(v, t, u)' = Between(v, t, u)
        /\ \A c, P : InPort(c, P)' <=> InPort(c, P)
    BY <1>1 DEF Of, Between, InPort
  <2>3. ASSUME NEW c \in calls', c.departed = NoTime
        PROVE  c \in found
    <3>1. ASSUME c \in calls
          PROVE  \E d \in found : SameCall(c, d)
      <4>1. c \in OpenCalls(c.mmsi)
        BY <2>3, <3>1 DEF OpenCalls
      <4>2. c.mmsi \in cast.vessels
        BY <1>3, <4>1, OpenCallsStay DEF Stays
      <4>3. \E d \in Visits(c.mmsi) : SameCall(c, d)
        BY <1>3, <4>1, CallsAreFoundAgain
      <4> QED
        BY <2>1, <4>2, <4>3
    <3> QED
      BY <1>1, <2>3, <3>1
  <2>4. ASSUME NEW c \in calls', c.departed = NoTime
        PROVE  Stays(c)' /\ InPort(c, Between(c.mmsi, c.arrived, now))
    <3>1. PICK v \in cast.vessels : c \in Visits(v)
      BY <2>1, <2>3, <2>4
    <3>2. /\ c.mmsi = v /\ c.port # NoPort /\ c.arrived \in Nat
          /\ \E a \in Window(v) : a.at = c.arrived
          /\ \E e \in Of(v) : e.at - c.arrived >= CallMinimum /\ InPort(c, Between(v, c.arrived, e.at))
          /\ \A r \in Window(v) : r.at < c.arrived => Broken(c, r)
          /\ InPort(c, Between(v, c.arrived, now))
      BY <1>3, <2>4, <3>1, VisitsAreSound
    <3>3. ASSUME NEW r \in Of(v), r.at < c.arrived
          PROVE  Apart(c, r)'
      <4>1. CASE r \in Window(v)
        BY <2>2, <3>2, <3>3, <4>1 DEF Apart, Broken
      <4>2. CASE r \notin Window(v)
        <5>1. r.at < now - CallLookback
          BY <1>3, <3>2, <4>2, OutsideIsOld
        <5>2. ASSUME NEW k \in OpenCalls(v)'
              PROVE  r.at < k.arrived
          <6>1. k \in calls' /\ k.departed = NoTime /\ k.mmsi = v
            BY DEF OpenCalls
          <6>2. PICK w \in cast.vessels : k \in Visits(w)
            BY <2>1, <2>3, <6>1
          <6>3. k.mmsi = w /\ \E b \in Window(w) : b.at = k.arrived
            BY <1>3, <6>2, VisitsAreSound
          <6>4. PICK b \in Window(v) : b.at = k.arrived
            BY <6>1, <6>3
          <6> QED
            BY <1>3, <4>2, <6>4, OutsideIsOld
        <5> QED
          BY <1>1, <3>2, <5>1, <5>2 DEF Apart
      <4> QED
        BY <4>1, <4>2
    <3>4. \E a \in Of(v) : a.at = c.arrived
      BY <3>2, WindowIs
    <3>5. Stays(c)'
      BY <1>1, <2>2, <3>1, <3>2, <3>3, <3>4 DEF Stays
    <3> QED
      BY <3>2, <3>5
  <2>5. ASSUME NEW c \in calls', c.departed # NoTime
        PROVE  Left(c)'
    <3>1. Left(c)
      <4>1. CASE c \in found
        <5>1. PICK v \in cast.vessels : c \in Visits(v)
          BY <2>1, <4>1
        <5> QED
          BY <1>3, <2>5, <5>1, VisitsAreSound
      <4>2. CASE c \in calls
        BY <1>3, <2>5, <4>2 DEF CallInv
      <4> QED
        BY <1>1, <4>1, <4>2
    <3> QED
      BY <2>2, <3>1 DEF Left
  <2>6. CallInv'
    BY <2>4, <2>5 DEF CallInv
  <2>7. Lying'
    BY <1>1, <2>2, <2>4 DEF Lying
  <2> QED
    BY <2>6, <2>7
<1> QED
  BY <1>2, <1>3

\* A report that is not late changes nothing within a stay.
LEMMA ReportKeepsCalls ==
  ASSUME Stored, CallInv, NEW v \in cast.vessels, NEW t, NEW place \in cast.places, Report(v, t, place)
  PROVE  CallInv' /\ Lying'
<1>1. PICK x \in Position :
         /\ positions' = positions \cup {x} /\ x.mmsi = v
         /\ ~late' => ~late /\ \A p \in positions : p.mmsi = v => p.at < x.at
  BY Reported
<1>2. UNCHANGED <<cast, now, calls>> /\ fresh' = {}
  BY DEF Report, tables
<1>3. \A w : OpenCalls(w)' = OpenCalls(w)
  BY <1>2 DEF OpenCalls
<1> SUFFICES ASSUME ~late', NEW c \in calls
             PROVE  IF c.departed = NoTime THEN Stays(c)' ELSE Left(c)'
  BY <1>2 DEF CallInv, Lying
<1>4. PICK P, Q : P = Of(c.mmsi) /\ Q = Of(c.mmsi)'
  OBVIOUS
<1>5. /\ P \subseteq Q /\ \A r \in Q : r \in P \/ \A p \in P : p.at < r.at
      /\ \A r \in Q : r.at \in Nat
  <2>1. Q = {p \in positions \cup {x} : p.mmsi = c.mmsi} /\ P = {p \in positions : p.mmsi = c.mmsi}
    BY <1>1, <1>4 DEF Of
  <2>2. \A p \in positions \cup {x} : p.at \in Nat
    BY DEF Stored, Position
  <2>3. ASSUME NEW r \in Q, r \notin P
        PROVE  \A p \in P : p.at < r.at
    BY <1>1, <2>1, <2>3
  <2> QED
    BY <2>1, <2>2, <2>3
<1>6. \A r \in Q, p \in P : r.at <= p.at => r \in P
  BY <1>5
<1>7. ASSUME NEW lo, NEW p \in P
      PROVE  Between(c.mmsi, lo, p.at)' = Between(c.mmsi, lo, p.at)
  BY <1>4, <1>5, <1>6 DEF Between
<1>8. \A lo, hi : /\ Between(c.mmsi, lo, hi) = {r \in P : lo <= r.at /\ r.at <= hi}
                  /\ Between(c.mmsi, lo, hi)' = {r \in Q : lo <= r.at /\ r.at <= hi}
  BY <1>4 DEF Between
<1>9. \A S : InPort(c, S)' <=> InPort(c, S)
  BY DEF InPort
<1>10. CASE c.departed = NoTime
  <2>1. Stays(c)
    BY <1>1, <1>10 DEF CallInv
  <2>2. PICK e \in P : e.at - c.arrived >= CallMinimum /\ InPort(c, Between(c.mmsi, c.arrived, e.at))
    BY <1>4, <2>1 DEF Stays
  <2>3. InPort(c, Between(c.mmsi, c.arrived, e.at)')
    <3>1. Between(c.mmsi, c.arrived, e.at)' = Between(c.mmsi, c.arrived, e.at)
      BY <1>7
    <3> QED
      BY <2>2, <3>1
  <2>4. PICK a \in P : a.at = c.arrived
    BY <1>4, <2>1 DEF Stays
  <2>5. ASSUME NEW r \in Q, r.at < c.arrived
        PROVE  Apart(c, r)'
    <3>1. r \in P
      BY <1>5, <1>6, <2>4, <2>5
    <3>2. Apart(c, r)
      BY <1>4, <2>1, <2>5, <3>1 DEF Stays
    <3> QED
      BY <1>2, <1>3, <1>4, <1>5, <3>2 DEF Apart
  <2>6. Stays(c)'
    BY <1>2, <1>4, <1>5, <1>9, <2>1, <2>2, <2>3, <2>4, <2>5 DEF Stays
  <2> QED
    BY <1>10, <2>6
<1>11. CASE c.departed # NoTime
  <2>1. Left(c)
    BY <1>1, <1>11 DEF CallInv
  <2>2. PICK p \in P : /\ PortOf(p.place) # c.port
                       /\ Between(c.mmsi, c.departed + 1, p.at) = {p}
    BY <1>4, <2>1 DEF Left
  <2>3. Between(c.mmsi, c.departed + 1, p.at)' = {p}
    <3>1. Between(c.mmsi, c.departed + 1, p.at)' = Between(c.mmsi, c.departed + 1, p.at)
      BY <1>7
    <3> QED
      BY <2>2, <3>1
  <2>4. c.departed \in Nat /\ c.departed + 1 <= p.at
    <3>1. p \in {r \in P : c.departed + 1 <= r.at /\ r.at <= p.at}
      BY <1>8, <2>2
    <3> QED
      BY <2>1, <3>1 DEF Left
  <2>5. ASSUME NEW r \in Q, c.arrived <= r.at, r.at <= c.departed
        PROVE  PortOf(r.place) = c.port
    <3>1. r.at <= p.at
      BY <1>5, <2>4, <2>5
    <3>2. r \in P
      BY <1>6, <3>1
    <3> QED
      BY <1>4, <2>1, <2>5, <3>2 DEF Left, InPort, Between
  <2>6. InPort(c, Between(c.mmsi, c.arrived, c.departed)')
    BY <1>8, <2>5 DEF InPort
  <2>7. Left(c)'
    BY <1>4, <1>5, <1>9, <2>1, <2>2, <2>3, <2>6 DEF Left
  <2> QED
    BY <1>11, <2>7
<1> QED
  BY <1>10, <1>11

\* Every step keeps what is known of calls.
LEMMA StepKeepsCalls ==
  ASSUME Stored, CallInv, Lying, [Next]_vars
  PROVE  CallInv' /\ Lying'
<1>1. CASE \E v \in cast.vessels, t \in 0 .. MaxTime, place \in cast.places : Report(v, t, place)
  BY <1>1, ReportKeepsCalls
<1>2. CASE ScanCalls
  BY <1>2, ScanCallsFinds
<1>3. ASSUME UNCHANGED <<cast, positions, calls, late>>, now' \in Nat, now <= now'
      PROVE  CallInv'
  <2>1. /\ \A v : Of(v)' = Of(v) /\ OpenCalls(v)' = OpenCalls(v)
        /\ \A v, t, u : Between(v, t, u)' = Between(v, t, u)
        /\ \A c, P : InPort(c, P)' <=> InPort(c, P)
    BY <1>3 DEF Of, OpenCalls, Between, InPort
  <2>2. ASSUME NEW c, NEW r \in positions, Apart(c, r)
        PROVE  Apart(c, r)'
    <3>1. r.at < now - CallLookback => r.at < now' - CallLookback
      BY <1>3, Numbers DEF Stored, Position
    <3> QED
      BY <2>1, <2>2, <3>1 DEF Apart
  <2>3. ASSUME NEW c, Stays(c)
        PROVE  Stays(c)'
    <3>1. \A r \in Of(c.mmsi) : r \in positions
      BY DEF Of
    <3> QED
      BY <1>3, <2>1, <2>2, <2>3, <3>1 DEF Stays
  <2>4. ASSUME NEW c, Left(c)
        PROVE  Left(c)'
    BY <2>1, <2>4 DEF Left
  <2> QED
    BY <1>3, <2>3, <2>4 DEF CallInv
<1>4. CASE Tick
  <2>1. UNCHANGED <<cast, positions, calls, late>> /\ now' = now + 1 /\ fresh' = {}
    BY <1>4 DEF Tick, tables
  <2>2. now' \in Nat /\ now <= now'
    BY <2>1 DEF Stored
  <2> QED
    BY <1>3, <2>1, <2>2 DEF Lying
<1>5. CASE UNCHANGED <<cast, now, positions, calls, late>>
           /\ ("calls" \in fresh' => "calls" \in fresh)
  <2>1. now' \in Nat /\ now <= now'
    BY <1>5 DEF Stored
  <2>2. CallInv'
    BY <1>3, <1>5, <2>1
  <2>3. Lying'
    BY <1>5 DEF Lying, InPort, Between, Of
  <2> QED
    BY <2>2, <2>3
<1>6. ASSUME NEW b \in backfills, Backfill(b) \/ Clean(b)
      PROVE  UNCHANGED <<cast, now, positions, calls, late, fresh>>
  BY <1>6 DEF Backfill, Clean
<1>7. ScanGaps \/ GapScanFails \/ ScanFence \/ ScanTransfers \/ ScanHoles \/ UNCHANGED vars
        => UNCHANGED <<cast, now, positions, calls, late>>
           /\ ("calls" \in fresh' => "calls" \in fresh)
  BY DEF ScanGaps, GapScanFails, ScanFence, ScanTransfers, ScanHoles, vars, tables, Ended
<1> QED
  BY <1>1, <1>2, <1>4, <1>5, <1>6, <1>7 DEF Next

\* A row of port_calls is a stay (portcall.go): from its arrival to its departure the
\* vessel was seen in that port only, for at least the minimum, and after that
\* elsewhere; after a scan an open row's vessel is still there.
THEOREM CallsAreStaysHolds == Spec => []CallsAreStays
<1>1. Init => Stored /\ CallInv /\ Lying
  BY InitStored DEF Init, CallInv, Lying
<1>2. Stored /\ CallInv /\ Lying /\ [Next]_vars => (Stored /\ CallInv /\ Lying)'
  BY StepKeepsStored, StepKeepsCalls
<1>3. CallInv /\ Lying => CallsAreStays
  BY DEF CallInv, Left, Lying, CallsAreStays
<1> QED
  BY <1>1, <1>2, <1>3, PTL DEF Spec
=============================================================================
