----------------------------- MODULE FlushProofs -----------------------------
(***************************************************************************)
(* What the flushes keep, for any messages and any bounds: how far the     *)
(* deduplication window protects the archive and how long it remembers,    *)
(* that a rebuilt cache is not behind the positions whose raw messages are *)
(* kept, and that a published update is as new as the vessel's last one.   *)
(***************************************************************************)
EXTENDS IngestProofs, FiniteSetTheorems

-----------------------------------------------------------------------------
(* No duplicate without its original.  Between the statement that records  *)
(* the fingerprints and the one that copies the rows, a recorded           *)
(* fingerprint may still be that of a message about to be copied; a flush  *)
(* cut short there would leave it without one.                             *)

Calm == faults = 0 /\ stops = 0

HasOriginal(f) == \E o \in archived : ~o.dup /\ Fingerprint(o.msg) = f

Originals ==
  Calm =>
    /\ ctx = "live"
    /\ pc # "raw" => \A w \in window : HasOriginal(w.fp)
    /\ pc = "raw" =>
         /\ \A w \in window :
              HasOriginal(w.fp) \/ \E m \in Kept : Fingerprint(m) = w.fp
         /\ \A m \in flags : HasOriginal(Fingerprint(m))
    /\ TaggedHasOriginal

\* Faults and stops are never forgotten.
LEMMA CalmBefore ==
  ASSUME Typed, [Next]_vars, Calm'
  PROVE  Calm /\ ~Kill /\ ~Cancel
<1>1. faults \in Nat /\ stops \in Nat
  BY DEF Typed, TypeOK, OutsideTypes
<1>2. faults' = faults \/ faults' = faults + 1
  BY DEF Next, Writer, Statement, Emit, Take, TickerFires, ContextDone, MarkDuplicates, CopyRaw,
         CopyPositions, UpsertVessels, UpsertLastPositions, EnqueueEnrichment, Publish, Succeeds,
         Fails, Purge, PruneRaw, Tick, Cancel, Kill, DbCrash, Start, vars
<1>3. stops' = stops \/ stops' = stops + 1
  BY DEF Next, Writer, Statement, Emit, Take, TickerFires, ContextDone, MarkDuplicates, CopyRaw,
         CopyPositions, UpsertVessels, UpsertLastPositions, EnqueueEnrichment, Publish,
         Purge, PruneRaw, Tick, Cancel, Kill, DbCrash, Start, vars
<1>4. Cancel \/ Kill => stops' = stops + 1
  BY DEF Cancel, Kill
<1> QED
  BY <1>1, <1>2, <1>3, <1>4 DEF Calm

\* In a calm run every statement succeeds.
LEMMA CalmSucceeds ==
  ASSUME Typed, Originals, Calm, Calm'
  PROVE  ~Fails
<1>1. ctx = "live"
  BY DEF Originals
<1> QED
  BY <1>1 DEF Calm, Fails, Live

\* An original stays an original.
LEMMA OriginalStays ==
  ASSUME [Next]_vars, NEW f, HasOriginal(f)
  PROVE  HasOriginal(f)'
  BY TablesGrow DEF HasOriginal

\* Fingerprints are recorded for known originals and for messages not flagged.
LEMMA MarkKeepsOriginals ==
  ASSUME Typed, Originals, Calm, Calm', MarkDuplicates
  PROVE  Originals'
<1>1. /\ window' = Recorded /\ flags' = Flagged /\ pc = "mark" /\ pc' = "raw"
      /\ UNCHANGED <<archived, buf, ctx>>
  BY CalmSucceeds DEF MarkDuplicates, Advance, Succeeds
<1>2. /\ ctx = "live" /\ TaggedHasOriginal
      /\ \A w \in window : HasOriginal(w.fp)
  BY <1>1 DEF Originals
<1>3. \A m \in flags' : HasOriginal(Fingerprint(m))
  BY <1>1, <1>2 DEF Flagged, Known
<1>4. ASSUME NEW w \in window'
      PROVE  HasOriginal(w.fp) \/ \E m \in Kept' : Fingerprint(m) = w.fp
  <2>1. CASE w \in window
    BY <1>2, <2>1
  <2>2. CASE w \notin window
    <3>1. PICK m \in Batch : Fingerprint(m) = w.fp /\ w.fp \notin Known
      BY <1>1, <2>2 DEF Recorded
    <3>2. m \in Kept'
      BY <1>1, <3>1 DEF Kept, Flagged, Batch
    <3> QED
      BY <3>1, <3>2
  <2> QED
    BY <2>1, <2>2
<1>5. \A f : HasOriginal(f)' <=> HasOriginal(f)
  BY <1>1 DEF HasOriginal
<1>6. TaggedHasOriginal'
  BY <1>1, <1>2 DEF TaggedHasOriginal
<1> QED
  BY <1>1, <1>2, <1>3, <1>4, <1>5, <1>6 DEF Originals

\* Copying the rows gives every recorded fingerprint its original.
LEMMA CopyKeepsOriginals ==
  ASSUME Typed, Originals, Calm, Calm', CopyRaw
  PROVE  Originals'
<1>1. /\ archived' = archived \cup raw' /\ raw' = raw \cup RawRows /\ raw \subseteq archived
      /\ pc = "raw" /\ pc' = "positions"
      /\ UNCHANGED <<window, ctx>>
  BY CalmSucceeds DEF CopyRaw, Advance, Succeeds, Typed, TypeOK, TableTypes
<1>2. /\ ctx = "live" /\ TaggedHasOriginal
      /\ \A w \in window : HasOriginal(w.fp) \/ \E m \in Kept : Fingerprint(m) = w.fp
      /\ \A m \in flags : HasOriginal(Fingerprint(m))
  BY <1>1 DEF Originals
<1>3. \A f : HasOriginal(f) => HasOriginal(f)'
  BY <1>1 DEF HasOriginal
<1>4. ASSUME NEW m \in Kept
      PROVE  HasOriginal(Fingerprint(m))'
  <2>1. PICK r \in RawRows : r.msg = m /\ ~r.dup
    BY KeptIsUntagged
  <2> QED
    BY <1>1, <2>1 DEF HasOriginal
<1>5. ASSUME NEW r \in archived', r.dup
      PROVE  HasOriginal(Fingerprint(r.msg))'
  <2>1. CASE r \in archived
    BY <1>2, <1>3, <1>5, <2>1 DEF TaggedHasOriginal, HasOriginal
  <2>2. CASE r \in RawRows
    <3>1. PICK m \in Batch : r = [msg |-> m, received |-> flushAt, dup |-> m \in flags]
      BY <2>2 DEF RawRows
    <3>2. r.msg = m
      BY <3>1
    <3>3. r.dup = (m \in flags)
      BY <3>1, Zenon
    <3>4. m \in flags
      BY <1>5, <3>3, Zenon
    <3> QED
      BY <1>2, <1>3, <3>2, <3>4
  <2> QED
    BY <1>1, <1>5, <2>1, <2>2
<1>6. \A w \in window' : HasOriginal(w.fp)'
  BY <1>1, <1>2, <1>3, <1>4
<1>7. TaggedHasOriginal'
  BY <1>5 DEF TaggedHasOriginal, HasOriginal
<1> QED
  BY <1>1, <1>2, <1>6, <1>7 DEF Originals

\* No step of a calm run tags a message whose original is missing.
LEMMA StepKeepsOriginals ==
  ASSUME Typed, Originals, [Next]_vars
  PROVE  Originals'
<1> SUFFICES ASSUME Calm' PROVE Originals'
  BY DEF Originals
<1>1. Calm /\ ~Kill /\ ~Cancel
  BY CalmBefore
<1>2. ~Fails /\ ctx = "live" /\ TaggedHasOriginal
  BY <1>1, CalmSucceeds DEF Originals
<1>3. CASE MarkDuplicates
  BY <1>1, <1>3, MarkKeepsOriginals
<1>4. CASE CopyRaw
  BY <1>1, <1>4, CopyKeepsOriginals
<1>5. CASE /\ window' \subseteq window /\ archived' = archived /\ ctx' = "live"
           /\ pc # "raw" /\ pc' # "raw"
  BY <1>1, <1>5 DEF Originals, HasOriginal, TaggedHasOriginal
<1>6. CASE /\ window' \subseteq window /\ archived' = archived /\ ctx' = "live"
           /\ pc' = pc /\ UNCHANGED <<buf, flags>>
  BY <1>1, <1>6 DEF Originals, HasOriginal, TaggedHasOriginal, Kept, Batch
<1>7. CASE Take \/ TickerFires \/ ContextDone \/ Start
  BY <1>2, <1>5, <1>7 DEF Take, TickerFires, ContextDone, Start, BeginFlush, NotRunning, tables
<1>8. CASE CopyPositions \/ UpsertVessels \/ UpsertLastPositions \/ EnqueueEnrichment \/ Publish
  BY <1>2, <1>5, <1>8 DEF CopyPositions, UpsertVessels, UpsertLastPositions, EnqueueEnrichment,
     Publish, Succeeds, Advance, EndBatch
<1>9. CASE (\E m \in Messages : Emit(m)) \/ Purge \/ PruneRaw \/ Tick \/ DbCrash \/ UNCHANGED vars
  BY <1>2, <1>6, <1>9 DEF Emit, Purge, PruneRaw, Tick, DbCrash, vars, writer, tables
<1> QED
  BY <1>1, <1>3, <1>4, <1>7, <1>8, <1>9 DEF Next, Writer, Statement

\* As long as no flush failed or was cut short, a message is tagged a duplicate
\* only of one the archive took untagged.
THEOREM OriginalKeptHolds == Spec => []OriginalKept
<1>1. Init => Typed /\ Originals
  BY InitIsTyped DEF Init, Originals, TaggedHasOriginal
<1>2. Typed /\ Originals /\ [Next]_vars => (Typed /\ Originals)'
  BY StepKeepsTypes, StepKeepsOriginals
<1>3. Originals => OriginalKept
  BY DEF Originals, OriginalKept, Calm
<1> QED
  BY <1>1, <1>2, <1>3, PTL DEF Spec

-----------------------------------------------------------------------------
(* How long the window remembers.  An entry is at least as new as the      *)
(* flush that made it, so it outlives the rows of that flush by Retention. *)
(* A flush whose duplicate check was cut off by the cancellation has no    *)
(* entries to show, but cannot commit anything any more either.            *)

Sound == faults = 0 /\ dbCrashes = 0

Recent(f, at) ==
  now - at <= Retention => \E w \in window : w.fp = f /\ w.seen >= at

Remembered ==
  Sound =>
    /\ \A p \in positions : Recent(Fingerprint(p.msg), p.received)
    /\ pc \in {"raw", "positions"} /\ MayCommit =>
         \A m \in Kept : Recent(Fingerprint(m), flushAt)

\* Soundness is never regained: neither a crash of Postgres nor a failure is undone.
LEMMA SoundBefore ==
  ASSUME Typed, [Next]_vars, Sound'
  PROVE  Sound /\ ~DbCrash /\ (Fails => ~Live)
<1>1. faults \in Nat /\ dbCrashes \in Nat
  BY DEF Typed, TypeOK, OutsideTypes
<1>2. faults' = faults \/ faults' = faults + 1
  BY DEF Next, Writer, Statement, Emit, Take, TickerFires, ContextDone, MarkDuplicates, CopyRaw,
         CopyPositions, UpsertVessels, UpsertLastPositions, EnqueueEnrichment, Publish, Succeeds,
         Fails, Purge, PruneRaw, Tick, Cancel, Kill, DbCrash, Start, vars
<1>3. dbCrashes' = dbCrashes \/ (DbCrash /\ dbCrashes' = dbCrashes + 1)
  BY DEF Next, Writer, Statement, Emit, Take, TickerFires, ContextDone, MarkDuplicates, CopyRaw,
         CopyPositions, UpsertVessels, UpsertLastPositions, EnqueueEnrichment, Publish,
         Purge, PruneRaw, Tick, Cancel, Kill, DbCrash, Start, vars
<1>4. DbCrash => dbCrashes' = dbCrashes + 1
  BY DEF DbCrash
<1>5. Fails /\ Live => faults' = faults + 1
  BY DEF Fails
<1> QED
  BY <1>1, <1>2, <1>3, <1>4, <1>5 DEF Sound

\* What is recent stays remembered: time only passes, and a purge spares it.
LEMMA RecentStays ==
  ASSUME Typed, [Next]_vars, ~DbCrash, NEW f, NEW at \in Nat, Recent(f, at)
  PROVE  Recent(f, at)'
<1>1. /\ now \in Nat /\ Retention \in Nat
      /\ window \subseteq [fp : Fingerprints, seen : Nat]
  BY BoundsAssumption DEF Typed, TypeOK, OutsideTypes, TableTypes
<1>2. now' = now \/ now' = now + 1
  BY TablesGrow DEF Tick
<1>3. CASE Purge
  <2>1. now' = now /\ window' = window \ Expired
    BY <1>3 DEF Purge
  <2>2. SUFFICES ASSUME now - at <= Retention
                 PROVE  \E w \in window' : w.fp = f /\ w.seen >= at
    BY <2>1 DEF Recent
  <2>3. PICK w \in window : w.fp = f /\ w.seen >= at
    BY <2>2 DEF Recent
  <2>4. w.seen \in Nat
    BY <1>1
  <2>5. w \notin Expired
    BY <1>1, <2>2, <2>3, <2>4 DEF Expired
  <2> QED
    BY <2>1, <2>3, <2>5
<1>4. CASE MarkDuplicates
  <2>1. window \subseteq window' /\ now' = now
    BY <1>4 DEF MarkDuplicates, Recorded, Left
  <2> QED
    BY <2>1 DEF Recent
<1>5. CASE window' = window
  BY <1>1, <1>2, <1>5 DEF Recent
<1> QED
  BY <1>3, <1>4, <1>5
     DEF Next, Writer, Statement, Emit, Take, TickerFires, ContextDone, CopyRaw, CopyPositions,
         UpsertVessels, UpsertLastPositions, EnqueueEnrichment, Publish, PruneRaw, Tick, Cancel, Kill,
         Start, vars, tables

\* A flush that may still commit has an entry for each message it keeps.
LEMMA StepRemembersBatch ==
  ASSUME Typed, FlushLeavesRows, Remembered, [Next]_vars, Sound, Sound', ~DbCrash,
         Fails => ~Live, pc' \in {"raw", "positions"}, MayCommit'
  PROVE  \A m \in Kept' : Recent(Fingerprint(m), flushAt)'
<1>1. /\ now \in Nat /\ flushAt \in Nat /\ flushAt <= now
  BY DEF Typed, TypeOK, OutsideTypes, WriterTypes, FlushLeavesRows
<1>2. CASE MarkDuplicates
  <2>1. UNCHANGED <<final, buf, flushAt, now>>
    BY <1>2 DEF MarkDuplicates, Advance
  <2>2. ~Fails
    BY <2>1 DEF Fails, Live, MayCommit
  <2>3. window' = Recorded /\ flags' = Flagged
    BY <1>2, <2>2 DEF MarkDuplicates
  <2>4. ASSUME NEW m \in Kept'
        PROVE  \E w \in window' : w.fp = Fingerprint(m) /\ w.seen >= flushAt
    <3>1. m \in Batch /\ Fingerprint(m) \notin Known
      BY <2>1, <2>3 DEF Kept, Flagged, Batch
    <3>2. [fp |-> Fingerprint(m), seen |-> now] \in window'
      BY <2>3, <3>1 DEF Recorded
    <3> QED
      BY <1>1, <3>2
  <2> QED
    BY <2>1, <2>4 DEF Recent
<1>3. CASE /\ pc \in {"raw", "positions"} /\ MayCommit
           /\ UNCHANGED <<buf, flags, flushAt>>
  <2>1. Kept' = Kept
    BY <1>3, SameBatch
  <2>2. \A m \in Kept : Recent(Fingerprint(m), flushAt)
    BY <1>3 DEF Remembered
  <2> QED
    BY <1>1, <1>3, <2>1, <2>2, RecentStays
<1>4. CASE CopyRaw \/ CopyPositions
  BY <1>3, <1>4 DEF CopyRaw, CopyPositions, Succeeds, Live, MayCommit, Advance, Abandon, EndBatch
<1>5. CASE Cancel
  BY <1>3, <1>5 DEF Cancel, Live, MayCommit
<1>6. CASE UNCHANGED writer
  BY <1>3, <1>6 DEF writer, Live, MayCommit
<1>7. CASE \/ Take \/ TickerFires \/ ContextDone \/ Kill \/ Start \/ UpsertVessels
           \/ UpsertLastPositions \/ EnqueueEnrichment \/ Publish
  BY <1>7 DEF Take, TickerFires, ContextDone, Kill, Start, BeginFlush, UpsertVessels,
     UpsertLastPositions, EnqueueEnrichment, Publish, Abandon, Advance, EndBatch
<1> QED
  BY <1>2, <1>4, <1>5, <1>6, <1>7
     DEF Next, Writer, Statement, Emit, Purge, PruneRaw, Tick, vars

\* Every recent row keeps its entry in the window.
LEMMA StepRemembers ==
  ASSUME Typed, FlushLeavesRows, Remembered, [Next]_vars
  PROVE  Remembered'
<1> SUFFICES ASSUME Sound' PROVE Remembered'
  BY DEF Remembered
<1>1. Sound /\ ~DbCrash /\ (Fails => ~Live)
  BY SoundBefore
<1>2. pc' \in {"raw", "positions"} /\ MayCommit' =>
        \A m \in Kept' : Recent(Fingerprint(m), flushAt)'
  BY <1>1, StepRemembersBatch
<1>3. ASSUME NEW p \in positions
      PROVE  Recent(Fingerprint(p.msg), p.received)'
  <2>1. p.received \in Nat
    BY DEF Typed, TypeOK, TableTypes, FixType
  <2> QED
    BY <1>1, <2>1, RecentStays DEF Remembered
<1>4. ASSUME NEW p \in positions', p \notin positions
      PROVE  Recent(Fingerprint(p.msg), p.received)'
  <2>1. p \in BatchFixes /\ CopyPositions
    BY <1>4, TablesGrow
       DEF Next, Writer, Statement, Emit, Take, TickerFires, ContextDone, MarkDuplicates, CopyRaw,
           UpsertVessels, UpsertLastPositions, EnqueueEnrichment, Publish, Purge, PruneRaw, Tick,
           Cancel, Kill, DbCrash, Start, vars, tables
  <2>2. MayCommit /\ pc = "positions"
    BY <1>4, <2>1 DEF CopyPositions, Succeeds, Left, MayCommit
  <2>3. PICK m \in Located : p = Fix(m, flushAt)
    BY <2>1 DEF BatchFixes
  <2>4. p.msg = m /\ p.received = flushAt /\ m \in Kept /\ flushAt \in Nat
    BY <2>3 DEF Fix, Located, Typed, TypeOK, WriterTypes
  <2> QED
    BY <1>1, <2>2, <2>4, RecentStays DEF Remembered
<1> QED
  BY <1>2, <1>3, <1>4 DEF Remembered

\* While Postgres keeps the window and fails no statement, a broadcast stored
\* within the last Retention is still known, through stops and restarts.
THEOREM WindowCoversRecentHolds == Spec => []WindowCoversRecent
<1>1. Init => Typed /\ TablesConsistent /\ Remembered
  BY InitIsTyped, InitIsConsistent DEF Init, Remembered
<1>2. Typed /\ TablesConsistent /\ Remembered /\ [Next]_vars
        => (Typed /\ TablesConsistent /\ Remembered)'
  BY StepKeepsTypes, ConsistentIsInductive, StepRemembers DEF TablesConsistent
<1>3. Remembered => WindowCoversRecent
  BY DEF Remembered, WindowCoversRecent, Recent, Known, Sound
<1> QED
  BY <1>1, <1>2, <1>3, PTL DEF Spec

-----------------------------------------------------------------------------
(* The rebuild.                                                            *)

\* A positions row is the fix of a position-type message.
PositionsAreFixes ==
  \A p \in positions : p = Fix(p.msg, p.received) /\ p.msg.type = "position"

\* A position row is only ever the fix of its message at the time of its flush.
LEMMA StepKeepsFixes ==
  ASSUME Typed, PositionsAreFixes, [Next]_vars
  PROVE  PositionsAreFixes'
<1>1. ASSUME NEW p \in BatchFixes
      PROVE  p = Fix(p.msg, p.received) /\ p.msg.type = "position"
  <2>1. PICK m \in Located : p = Fix(m, flushAt)
    BY DEF BatchFixes
  <2>2. p.msg = m /\ p.received = flushAt
    BY <2>1 DEF Fix
  <2>3. m \in Messages /\ m.place # NoPlace
    BY BatchIsTyped DEF Located, HasPosition, Typed
  <2>4. m.type = "position"
    BY <2>3, MessagesAssumption DEF MessageType
  <2> QED
    BY <2>1, <2>2, <2>4
<1> QED
  BY <1>1, TablesGrow DEF PositionsAreFixes

\* A raw message is gone only when it is past its retention.
PrunedAreOld == \A r \in archived \ raw : r.received < now - RawRetention

\* Only the pruning takes rows away, and a row once old stays old.
LEMMA StepPrunesOld ==
  ASSUME Typed, PrunedAreOld, [Next]_vars
  PROVE  PrunedAreOld'
<1>1. /\ now \in Nat /\ RawRetention \in Nat /\ raw \subseteq archived
      /\ \A r \in archived : r.received \in Nat
  BY BoundsAssumption DEF Typed, TypeOK, TableTypes, OutsideTypes
<1>2. CASE PruneRaw
  BY <1>1, <1>2 DEF PruneRaw, PrunedAreOld
<1>3. CASE CopyRaw
  <2>1. /\ raw \subseteq raw' /\ archived' = archived \cup raw' /\ now' = now
    BY <1>3, LeftGrows DEF CopyRaw
  <2> QED
    BY <2>1 DEF PrunedAreOld
<1>4. CASE UNCHANGED <<raw, archived>> /\ (now' = now \/ now' = now + 1)
  BY <1>1, <1>4 DEF PrunedAreOld
<1> QED
  BY <1>2, <1>3, <1>4
     DEF Next, Writer, Statement, Emit, Take, TickerFires, ContextDone, MarkDuplicates,
         CopyPositions, UpsertVessels, UpsertLastPositions, EnqueueEnrichment, Publish, Purge,
         Tick, Cancel, Kill, DbCrash, Start, vars, tables

\* What the rebuild reads covers every position whose raw message is still kept.
LEMMA StartCovers ==
  ASSUME Typed, PositionsFollowArchive, PositionsAreFixes, PrunedAreOld, Start,
         last = EmptyCache, NEW p \in positions, now - p.received <= RawRetention
  PROVE  last'[p.msg.mmsi].reported >= p.reported
<1> DEFINE v == p.msg.mmsi
<1>1. v \in Vessels
  BY BatchIsTyped DEF Typed, TypeOK, TableTypes, FixType
<1>2. PICK r \in raw : r.msg = p.msg /\ r.received = p.received
  <2>1. PICK r \in archived : r.msg = p.msg /\ r.received = p.received
    BY DEF PositionsFollowArchive
  <2>2. now \in Nat /\ RawRetention \in Nat /\ p.received \in Nat
    BY BoundsAssumption DEF Typed, TypeOK, TableTypes, OutsideTypes, FixType
  <2>3. r \in raw
    BY <2>1, <2>2 DEF PrunedAreOld
  <2> QED
    BY <2>1, <2>3
<1>3. p \in Archived(v)
  BY <1>2 DEF PositionsAreFixes, Archived
<1>4. \A u \in Vessels : last[u] = NoFix
  BY DEF EmptyCache
<1>5. last'[v] \in NewestArchived(v)
  BY <1>1, <1>3, <1>4 DEF Start, Rebuilt
<1>6. p.reported <= last'[v].reported
  BY <1>3, <1>5 DEF NewestArchived
<1>7. p.reported \in Nat
  BY DEF Typed, TypeOK, TableTypes, FixType
<1>8. PICK s \in raw : last'[v] = Fix(s.msg, s.received)
  BY <1>5 DEF NewestArchived, Archived
<1>9. last'[v] \in FixType
  <2>1. s.msg \in Messages /\ s.received \in Nat
    BY DEF Typed, TypeOK, TableTypes
  <2> QED
    BY <1>8, <2>1, FixIsTyped
<1> QED
  BY <1>6, <1>7, <1>9 DEF FixType

\* A start that finds the cache empty leaves no vessel behind its positions whose
\* raw messages are within their retention.
THEOREM RebuildCoversPositionsHolds == Spec => RebuildCoversPositions
<1> DEFINE Inv == Typed /\ TablesConsistent /\ PositionsAreFixes /\ PrunedAreOld
<1>1. Init => Inv
  BY InitIsTyped, InitIsConsistent DEF Init, PositionsAreFixes, PrunedAreOld
<1>2. Inv /\ [Next]_vars => Inv'
  BY StepKeepsTypes, ConsistentIsInductive, StepKeepsFixes, StepPrunesOld
<1>3. Inv /\ [Next]_vars =>
        [Start /\ last = EmptyCache =>
           \A p \in positions :
             now - p.received <= RawRetention => last'[p.msg.mmsi].reported >= p.reported]_vars
  BY StartCovers DEF TablesConsistent
<1> QED
  <2> HIDE DEF Inv
  <2> QED
    BY <1>1, <1>2, <1>3, PTL DEF Spec, RebuildCoversPositions

-----------------------------------------------------------------------------
(* The cache is never behind the live feed.  Of a vessel's fixes in a      *)
(* batch, one wins, and what the upsert leaves in the cache is at least as *)
(* new as the winner; after that the vessel's entry only moves forward.    *)

At(i) == Fix(buf[i], flushAt).reported

\* The places of a vessel's fixes in the batch, and those of them that beat i.
OfVessel(v) == {i \in DOMAIN buf : buf[i] \in Located /\ buf[i].mmsi = v}
Beating(v, i) == {j \in OfVessel(v) : At(j) > At(i) \/ (At(j) = At(i) /\ j > i)}

\* Of finitely many sets that are not none, one has no smaller one among them.
LEMMA SmallestSet ==
  ASSUME NEW S, IsFiniteSet(S), NEW T \in SUBSET SUBSET S, T # {}
  PROVE  \E x \in T : \A y \in T : y \subseteq x => y = x
<1>1. T \subseteq FiniteSubsetsOf(S)
  BY FS_Subset DEF FiniteSubsetsOf
<1>2. PICK x \in T : \A y \in T : <<y, x>> \notin StrictSubsetOrdering(S)
  BY <1>1, WFMin, FS_StrictSubsetOrderingWellFounded, Zenon
<1>3. \A y \in T : y \subseteq x => y = x
  BY <1>2 DEF StrictSubsetOrdering
<1> QED
  BY <1>3

\* Places and times of a batch are numbers.
LEMMA BatchIsTimed ==
  ASSUME TypeOK
  PROVE  /\ DOMAIN buf = 1 .. Len(buf) /\ Len(buf) \in Nat
         /\ \A i \in DOMAIN buf : buf[i] \in Messages /\ At(i) \in Nat
<1>1. buf \in Seq(Messages) /\ flushAt \in Nat
  BY DEF TypeOK, WriterTypes
<1>2. DOMAIN buf = 1 .. Len(buf) /\ Len(buf) \in Nat /\ \A i \in DOMAIN buf : buf[i] \in Messages
  BY <1>1
<1>3. ASSUME NEW i \in DOMAIN buf
      PROVE  At(i) \in Nat
  BY <1>1, <1>2, FixIsTyped DEF At, FixType
<1> QED
  BY <1>2, <1>3

\* Of a vessel's fixes in a batch, one wins.
LEMMA SomeoneWins ==
  ASSUME TypeOK, NEW v, OfVessel(v) # {}
  PROVE  \E i \in OfVessel(v) : Wins(i)
<1>1. /\ DOMAIN buf = 1 .. Len(buf) /\ Len(buf) \in Nat
      /\ \A i \in DOMAIN buf : At(i) \in Nat /\ i \in Nat
  BY BatchIsTimed
<1>2. OfVessel(v) \subseteq DOMAIN buf
  BY DEF OfVessel
<1>3. IsFiniteSet(DOMAIN buf)
  BY <1>1, FS_Interval
<1> DEFINE T == {Beating(v, i) : i \in OfVessel(v)}
<1>4. T \in SUBSET SUBSET (DOMAIN buf) /\ T # {}
  BY <1>2 DEF Beating
<1>5. PICK x \in T : \A y \in T : y \subseteq x => y = x
  <2> HIDE DEF T
  <2> QED
    BY <1>3, <1>4, SmallestSet
<1>6. PICK i \in OfVessel(v) : x = Beating(v, i)
  OBVIOUS
<1>7. ASSUME NEW j \in Beating(v, i)
      PROVE  FALSE
  <2>1. j \in OfVessel(v) /\ Beating(v, j) \in T
    BY DEF Beating
  <2>2. /\ At(i) \in Nat /\ At(j) \in Nat /\ i \in Nat /\ j \in Nat
        /\ At(j) > At(i) \/ (At(j) = At(i) /\ j > i)
    BY <1>1, <1>2, <2>1 DEF Beating
  <2>3. j \notin Beating(v, j)
    BY <2>2 DEF Beating
  <2>4. ASSUME NEW k \in Beating(v, j)
        PROVE  k \in Beating(v, i)
    <3>1. /\ k \in OfVessel(v) /\ At(k) \in Nat /\ k \in Nat
          /\ At(k) > At(j) \/ (At(k) = At(j) /\ k > j)
      BY <1>1, <1>2 DEF Beating
    <3> QED
      BY <2>2, <3>1 DEF Beating
  <2>5. Beating(v, j) = Beating(v, i)
    BY <1>5, <1>6, <2>1, <2>4
  <2> QED
    BY <2>3, <2>5
<1>8. ASSUME NEW j \in OfVessel(v)
      PROVE  At(j) < At(i) \/ (At(j) = At(i) /\ j <= i)
  <2>1. At(i) \in Nat /\ At(j) \in Nat /\ i \in Nat /\ j \in Nat
    BY <1>1, <1>2
  <2>2. ~(At(j) > At(i) \/ (At(j) = At(i) /\ j > i))
    BY <1>7 DEF Beating
  <2> QED
    BY <2>1, <2>2
<1>9. Wins(i)
  BY <1>8 DEF Wins, OfVessel, At
<1> QED
  BY <1>9

-----------------------------------------------------------------------------
(* What the upsert leaves.                                                 *)

\* A fix that wins is at least as new as every fix of its vessel in the batch.
LEMMA WinnersAreNewest ==
  ASSUME TypeOK, NEW f \in Winners, NEW m \in Located, f.msg.mmsi = m.mmsi
  PROVE  f.reported \in Nat /\ f.reported >= Fix(m, flushAt).reported
<1>1. PICK i \in DOMAIN buf : Wins(i) /\ f = Fix(buf[i], flushAt)
  BY DEF Winners
<1>2. PICK j \in DOMAIN buf : m = buf[j]
  BY DEF Located, Kept, Batch
<1>3. buf[i].mmsi = m.mmsi
  BY <1>1 DEF Fix
<1>4. At(j) < At(i) \/ At(j) = At(i)
  BY <1>1, <1>2, <1>3 DEF Wins, At
<1>5. At(i) \in Nat /\ At(j) \in Nat
  BY BatchIsTimed
<1> QED
  BY <1>1, <1>2, <1>4, <1>5 DEF At

\* The upsert leaves no vessel of the batch behind its fixes.
LEMMA UpsertCoversBatch ==
  ASSUME TypeOK, NEW m \in Located
  PROVE  Upserted[m.mmsi].reported >= Fix(m, flushAt).reported
<1> DEFINE v == m.mmsi
<1>1. m \in Messages /\ v \in Vessels
  BY BatchIsTyped
<1>2. OfVessel(v) # {}
  BY DEF OfVessel, Located, Kept, Batch
<1>3. PICK i \in OfVessel(v) : Wins(i)
  BY <1>2, SomeoneWins
<1> DEFINE w == Fix(buf[i], flushAt)
<1>4. w \in Winners /\ w.msg.mmsi = v
  BY <1>3 DEF Winners, OfVessel, Fix
<1>5. w.reported \in Nat /\ w.reported >= Fix(m, flushAt).reported
  BY <1>4, WinnersAreNewest
<1>6. Fix(m, flushAt).reported \in Nat
  BY <1>1, FixIsTyped DEF TypeOK, WriterTypes, FixType
<1>7. last[v].reported \in Int
  <2>1. last[v] \in FixType \cup {NoFix}
    BY <1>1 DEF TypeOK, TableTypes
  <2> QED
    BY <2>1 DEF FixType, NoFix
<1>8. CASE Newer(v) = {}
  <2>1. Upserted[v] = last[v]
    BY <1>1, <1>8 DEF Upserted
  <2>2. ~(w.reported >= last[v].reported)
    BY <1>4, <1>8 DEF Newer
  <2> QED
    BY <1>5, <1>6, <1>7, <2>1, <2>2
<1>9. CASE Newer(v) # {}
  <2>1. Upserted[v] = CHOOSE f \in Newer(v) : TRUE
    BY <1>1, <1>9 DEF Upserted
  <2>2. Upserted[v] \in Newer(v)
    BY <1>9, <2>1
  <2>3. Upserted[v] \in Winners /\ Upserted[v].msg.mmsi = v
    BY <2>2 DEF Newer
  <2> QED
    BY <2>3, WinnersAreNewest
<1> QED
  BY <1>8, <1>9

-----------------------------------------------------------------------------
(* The cache over time.                                                    *)

\* Past the upsert the cache covers what the flush is about to publish.
Current ==
  dbCrashes = 0 =>
    /\ \A u \in feed : \E p \in positions :
         p.msg = u.msg /\ last[u.msg.mmsi].reported >= p.reported
    /\ pc \in {"enqueue", "publish"} =>
         \A m \in Located : last[m.mmsi].reported >= Fix(m, flushAt).reported

\* When Postgres has not crashed after a step, it had not before it.
LEMMA NoCrashBefore ==
  ASSUME Typed, [Next]_vars, dbCrashes' = 0
  PROVE  dbCrashes = 0 /\ ~DbCrash
<1>1. dbCrashes \in Nat
  BY DEF Typed, TypeOK, OutsideTypes
<1>2. dbCrashes' = dbCrashes \/ DbCrash
  BY DEF Next, Writer, Statement, Emit, Take, TickerFires, ContextDone, MarkDuplicates, CopyRaw,
         CopyPositions, UpsertVessels, UpsertLastPositions, EnqueueEnrichment, Publish,
         Purge, PruneRaw, Tick, Cancel, Kill, DbCrash, Start, vars
<1>3. DbCrash => dbCrashes' = dbCrashes + 1
  BY DEF DbCrash
<1> QED
  BY <1>1, <1>2, <1>3

\* An entry is timed, and only moves forward unless Postgres crashes.
LEMMA CacheMovesForward ==
  ASSUME Typed, [Next]_vars, ~DbCrash, NEW v \in Vessels
  PROVE  /\ last[v].reported \in Int /\ last'[v].reported \in Int
         /\ last'[v].reported >= last[v].reported
<1>1. /\ last[v] \in FixType \cup {NoFix} /\ last'[v] \in FixType \cup {NoFix}
      /\ last \in [Vessels -> FixType \cup {NoFix}]
  BY StepKeepsTypes DEF Typed, TypeOK, TableTypes
<1>2. /\ last[v].reported \in Int /\ last'[v].reported \in Int
      /\ last'[v].reported >= -1 /\ (last[v] = NoFix => last[v].reported = -1)
  BY <1>1 DEF FixType, NoFix
<1>3. CASE UpsertLastPositions
  <2>1. last' \in {last, Upserted}
    BY <1>3 DEF UpsertLastPositions, Left
  <2>2. Upserted[v] = last[v] \/ Upserted[v].reported >= last[v].reported
    BY UpsertMovesForward DEF Typed
  <2> QED
    BY <1>2, <2>1, <2>2
<1>4. CASE Start
  <2>1. last' = last \/ last[v] = NoFix
    BY <1>4 DEF Start, Rebuilt
  <2> QED
    BY <1>2, <2>1
<1>5. CASE last' = last
  BY <1>2, <1>5
<1> QED
  BY <1>3, <1>4, <1>5
     DEF Next, Writer, Statement, Emit, Take, TickerFires, ContextDone, MarkDuplicates, CopyRaw,
         CopyPositions, UpsertVessels, EnqueueEnrichment, Publish, Purge, PruneRaw, Tick, Cancel, Kill,
         vars, tables

\* A flush reaches its last two statements with the cache covering its batch.
LEMMA StepCoversBatch ==
  ASSUME Typed, Current, [Next]_vars, dbCrashes = 0, ~DbCrash, pc' \in {"enqueue", "publish"}
  PROVE  \A m \in Located' : last'[m.mmsi].reported >= (Fix(m, flushAt).reported)'
<1>1. CASE UpsertLastPositions
  <2>1. last' = Upserted /\ UNCHANGED <<buf, flags, flushAt>>
    BY <1>1 DEF UpsertLastPositions, Advance, Abandon, EndBatch
  <2>2. Located' = Located
    BY <2>1, SameBatch
  <2>3. ASSUME NEW m \in Located
        PROVE  last'[m.mmsi].reported >= (Fix(m, flushAt).reported)'
    BY <2>1, UpsertCoversBatch DEF Fix, Typed
  <2> QED
    BY <2>2, <2>3
<1>2. CASE pc \in {"enqueue", "publish"} /\ UNCHANGED <<buf, flags, flushAt>>
  <2>1. Located' = Located
    BY <1>2, SameBatch
  <2>2. ASSUME NEW m \in Located
        PROVE  last'[m.mmsi].reported >= (Fix(m, flushAt).reported)'
    <3>1. m \in Messages /\ m.mmsi \in Vessels /\ flushAt \in Nat
      BY BatchIsTyped DEF Typed, TypeOK, WriterTypes
    <3>2. /\ last'[m.mmsi].reported >= last[m.mmsi].reported
          /\ last[m.mmsi].reported \in Int /\ last'[m.mmsi].reported \in Int
      BY <3>1, CacheMovesForward
    <3>3. last[m.mmsi].reported >= Fix(m, flushAt).reported
      BY <1>2 DEF Current
    <3>4. Fix(m, flushAt).reported \in Nat
      BY <3>1, FixIsTyped DEF FixType
    <3>5. (Fix(m, flushAt).reported)' = Fix(m, flushAt).reported
      BY <1>2 DEF Fix
    <3> QED
      BY <3>2, <3>3, <3>4, <3>5
  <2> QED
    BY <2>1, <2>2
<1>3. CASE EnqueueEnrichment
  BY <1>2, <1>3 DEF EnqueueEnrichment, Advance
<1>4. CASE Cancel \/ UNCHANGED writer
  BY <1>2, <1>4 DEF Cancel, writer
<1>5. CASE \/ Take \/ TickerFires \/ ContextDone \/ Kill \/ Start \/ MarkDuplicates \/ CopyRaw
           \/ CopyPositions \/ UpsertVessels \/ Publish
  BY <1>5 DEF Take, TickerFires, ContextDone, Kill, Start, BeginFlush, MarkDuplicates, CopyRaw,
     CopyPositions, UpsertVessels, Publish, Abandon, Advance, EndBatch
<1> QED
  BY <1>1, <1>3, <1>4, <1>5
     DEF Next, Writer, Statement, Emit, Purge, PruneRaw, Tick, vars

\* What is broadcast is covered by then, and what was stays covered.
LEMMA StepIsCurrent ==
  ASSUME Typed, FlushLeavesRows, PublishedIsStored, Current, [Next]_vars
  PROVE  Current'
<1> SUFFICES ASSUME dbCrashes' = 0 PROVE Current'
  BY DEF Current
<1>1. dbCrashes = 0 /\ ~DbCrash
  BY NoCrashBefore
<1>2. pc' \in {"enqueue", "publish"} =>
        \A m \in Located' : last'[m.mmsi].reported >= (Fix(m, flushAt).reported)'
  BY <1>1, StepCoversBatch
<1>3. ASSUME NEW u \in feed
      PROVE  \E p \in positions' : p.msg = u.msg /\ last'[u.msg.mmsi].reported >= p.reported
  <2>1. PICK p \in positions : p.msg = u.msg /\ last[u.msg.mmsi].reported >= p.reported
    BY <1>1 DEF Current
  <2>2. p.reported \in Nat /\ u.msg.mmsi \in Vessels
    BY BatchIsTyped DEF Typed, TypeOK, TableTypes, OutsideTypes, FixType
  <2>3. p \in positions'
    BY TablesGrow
  <2>4. /\ last'[u.msg.mmsi].reported >= last[u.msg.mmsi].reported
        /\ last[u.msg.mmsi].reported \in Int /\ last'[u.msg.mmsi].reported \in Int
    BY <1>1, <2>2, CacheMovesForward
  <2> QED
    BY <2>1, <2>2, <2>3, <2>4
<1>4. ASSUME NEW u \in feed', u \notin feed
      PROVE  \E p \in positions' : p.msg = u.msg /\ last'[u.msg.mmsi].reported >= p.reported
  <2>1. u \in Updates /\ Publish /\ pc = "publish"
    BY <1>4, TablesGrow DEF Publish
  <2>2. PICK m \in Located : u.msg = m
    BY <2>1 DEF Updates
  <2>3. Fix(m, flushAt) \in positions /\ Fix(m, flushAt).msg = m
    BY <2>1 DEF FlushLeavesRows, BatchFixes, Fix
  <2>4. last[m.mmsi].reported >= Fix(m, flushAt).reported
    BY <1>1, <2>1 DEF Current
  <2>5. UNCHANGED <<positions, last>>
    BY <2>1 DEF Publish
  <2> QED
    BY <2>2, <2>3, <2>4, <2>5
<1> QED
  BY <1>2, <1>3, <1>4 DEF Current

\* Unless Postgres lost it, the cache holds a fix of a vessel at least as new as
\* every one that was broadcast.
THEOREM PublishedIsCurrentHolds == Spec => []PublishedIsCurrent
<1>1. Init => Typed /\ TablesConsistent /\ Current
  BY InitIsTyped, InitIsConsistent DEF Init, Current
<1>2. Typed /\ TablesConsistent /\ Current /\ [Next]_vars
        => (Typed /\ TablesConsistent /\ Current)'
  BY StepKeepsTypes, ConsistentIsInductive, StepIsCurrent DEF TablesConsistent
<1>3. Current => PublishedIsCurrent
  BY DEF Current, PublishedIsCurrent
<1> QED
  BY <1>1, <1>2, <1>3, PTL DEF Spec
=============================================================================
