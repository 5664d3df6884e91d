---------------------------- MODULE IngestProofs ----------------------------
(***************************************************************************)
(* Theorems about the ingest path, for any messages and any bounds.        *)
(***************************************************************************)
EXTENDS Ingest, TLAPS

-----------------------------------------------------------------------------
(* Types.                                                                  *)

\* A message of the feed, stored at a time, is a row of the positions type.
LEMMA FixIsTyped ==
  ASSUME NEW m \in Messages, NEW at \in Nat
  PROVE  Fix(m, at) \in FixType
<1>1. m \in MessageType
  BY MessagesAssumption
<1>2. m.reported \in Nat \cup {NoTime}
  BY <1>1 DEF MessageType
<1> QED
  BY <1>2 DEF Fix, FixType, NoTime

\* The batch holds messages, each from a vessel.
LEMMA BatchIsTyped ==
  ASSUME TypeOK
  PROVE  /\ Batch \subseteq Messages
         /\ Located \subseteq Kept /\ Kept \subseteq Batch
         /\ \A m \in Messages : m.mmsi \in Vessels
         /\ Sightings \subseteq Vessels
         /\ BatchFixes \subseteq FixType
<1>1. Batch \subseteq Messages
  BY DEF TypeOK, WriterTypes, Batch
<1>2. Located \subseteq Kept /\ Kept \subseteq Batch
  BY DEF Located, Kept
<1>3. \A m \in Messages : m.mmsi \in Vessels
  BY MessagesAssumption DEF MessageType
<1>4. Sightings \subseteq Vessels
  BY <1>1, <1>2, <1>3 DEF Sightings
<1>5. BatchFixes \subseteq FixType
  BY <1>1, <1>2, FixIsTyped DEF BatchFixes, TypeOK, WriterTypes
<1> QED
  BY <1>1, <1>2, <1>3, <1>4, <1>5

\* The upsert leaves a vessel's entry or writes one of the batch's fixes of that
\* vessel, at least as new.
LEMMA UpsertMovesForward ==
  ASSUME TypeOK
  PROVE  /\ Upserted \in [Vessels -> FixType \cup {NoFix}]
         /\ \A v \in Vessels :
              \/ Upserted[v] = last[v]
              \/ /\ Upserted[v] \in BatchFixes
                 /\ Upserted[v].msg.mmsi = v
                 /\ Upserted[v].reported >= last[v].reported
<1>1. Winners \subseteq BatchFixes
  BY DEF Winners, Wins, BatchFixes
<1>2. ASSUME NEW v \in Vessels
      PROVE  \/ Upserted[v] = last[v]
             \/ /\ Upserted[v] \in BatchFixes
                /\ Upserted[v].msg.mmsi = v
                /\ Upserted[v].reported >= last[v].reported
  <2>1. CASE Newer(v) = {}
    BY <2>1 DEF Upserted
  <2>2. CASE Newer(v) # {}
    <3>1. Upserted[v] = CHOOSE f \in Newer(v) : TRUE
      BY <2>2 DEF Upserted
    <3>2. Upserted[v] \in Newer(v)
      BY <2>2, <3>1
    <3> QED
      BY <1>1, <3>2 DEF Newer
  <2> QED
    BY <2>1, <2>2
<1>3. \A v \in Vessels : Upserted[v] \in FixType \cup {NoFix}
  BY <1>2, BatchIsTyped DEF TypeOK, TableTypes
<1>4. Upserted = [v \in Vessels |-> Upserted[v]]
  BY DEF Upserted
<1> QED
  BY <1>2, <1>3, <1>4

\* Appending a message to a batch or a channel, and taking the head of one.
LEMMA EmptyQueue ==
  ASSUME NEW s, s = <<>>
  PROVE  s \in Seq(Messages) /\ Len(s) = 0
  OBVIOUS

LEMMA QueueFacts ==
  \A s \in Seq(Messages) :
    /\ Len(s) \in Nat
    /\ \A m \in Messages :
         Append(s, m) \in Seq(Messages) /\ Len(Append(s, m)) = Len(s) + 1
    /\ s # <<>> => /\ Head(s) \in Messages
                  /\ Tail(s) \in Seq(Messages)
                  /\ Len(Tail(s)) = Len(s) - 1
  OBVIOUS

\* In the select loop the batch is never full, a full one is being flushed; a
\* writer that is not running has none.
BatchRoom ==
  /\ pc = "select" => Len(buf) < BatchSize
  /\ pc \in NotRunning => buf = <<>>

Typed == TypeOK /\ BatchRoom

\* The end of a batch keeps the writer typed and empties the batch.
LEMMA EndBatchIsTyped ==
  ASSUME Typed, EndBatch, ctx' \in {"live", "cancelling", "cancelled"}
  PROVE  WriterTypes' /\ BatchRoom'
<1>1. /\ pc' \in {"select", "stopped"} /\ final' = FALSE /\ buf' = <<>> /\ flushAt' = 0
      /\ flags' = {} /\ fresh' = {}
  BY DEF EndBatch
<1>2. buf' \in Seq(Messages) /\ Len(buf') = 0
  BY <1>1, EmptyQueue
<1>3. Len(buf') <= BatchSize /\ Len(buf') < BatchSize
  BY <1>2, BoundsAssumption
<1>4. WriterTypes'
  BY <1>1, <1>2, <1>3 DEF WriterTypes, NotRunning
<1>5. BatchRoom'
  BY <1>1, <1>3 DEF BatchRoom
<1> QED
  BY <1>4, <1>5

\* So does going on to the next statement.
LEMMA AdvanceIsTyped ==
  ASSUME Typed, NEW next \in DbSteps, Advance(next),
         ctx' \in {"live", "cancelling", "cancelled"},
         flags' \subseteq Messages, fresh' \subseteq Vessels
  PROVE  WriterTypes' /\ BatchRoom' /\ CounterTypes'
<1>1. pc' \in DbSteps /\ UNCHANGED <<final, buf, flushAt>> /\ UNCHANGED counters
  BY DEF Advance
<1>2. WriterTypes'
  BY <1>1 DEF WriterTypes, Typed, TypeOK
<1>3. BatchRoom'
  BY <1>1 DEF BatchRoom, DbSteps, NotRunning
<1>4. CounterTypes'
  BY <1>1 DEF CounterTypes, counters, Typed, TypeOK
<1> QED
  BY <1>2, <1>3, <1>4

\* The outcome of a statement keeps the context and the fault count typed.
LEMMA OutcomeIsTyped ==
  ASSUME TypeOK, Succeeds \/ Fails \/ UNCHANGED <<ctx, faults>>
  PROVE  ctx' \in {"live", "cancelling", "cancelled"} /\ faults' \in Nat
  BY DEF Succeeds, Fails, TypeOK, WriterTypes, OutsideTypes

\* A statement that ends the flush with an error, or goes on, keeps everything
\* but the tables typed.
LEMMA StatementIsTyped ==
  ASSUME Typed,
         Succeeds \/ Fails \/ UNCHANGED <<ctx, faults>>,
         \/ Abandon
         \/ /\ \E next \in DbSteps : Advance(next)
            /\ flags' \subseteq Messages /\ fresh' \subseteq Vessels,
         UNCHANGED <<client, feed, now, stops, dbCrashes>>
  PROVE  ClientTypes' /\ CounterTypes' /\ WriterTypes' /\ OutsideTypes' /\ BatchRoom'
<1>1. ctx' \in {"live", "cancelling", "cancelled"} /\ faults' \in Nat
  BY OutcomeIsTyped DEF Typed
<1>2. ClientTypes'
  BY DEF ClientTypes, client, Typed, TypeOK
<1>3. OutsideTypes'
  BY <1>1 DEF OutsideTypes, Typed, TypeOK
<1>4. CASE Abandon
  <2>1. WriterTypes' /\ BatchRoom'
    BY <1>1, <1>4, EndBatchIsTyped DEF Abandon
  <2>2. CounterTypes'
    BY <1>4 DEF Abandon, CounterTypes, Typed, TypeOK
  <2> QED
    BY <1>2, <1>3, <2>1, <2>2
<1>5. CASE /\ \E next \in DbSteps : Advance(next)
           /\ flags' \subseteq Messages /\ fresh' \subseteq Vessels
  BY <1>1, <1>2, <1>3, <1>5, AdvanceIsTyped
<1> QED
  BY <1>4, <1>5

\* The whole record of types, one step per action.
LEMMA StepKeepsTypes ==
  ASSUME Typed, [Next]_vars
  PROVE  Typed'
<1> USE DEF Typed, TypeOK
<1>1. ASSUME NEW m \in Messages, Emit(m)
      PROVE  Typed'
  <2>1. ClientTypes'
    BY <1>1, QueueFacts, BoundsAssumption DEF Emit, ClientTypes
  <2>2. CounterTypes' /\ WriterTypes' /\ BatchRoom'
    BY <1>1 DEF Emit, writer, CounterTypes, WriterTypes, BatchRoom
  <2>3. TableTypes' /\ OutsideTypes'
    BY <1>1 DEF Emit, tables, TableTypes, OutsideTypes
  <2> QED
    BY <2>1, <2>2, <2>3
<1>2. CASE Take
  <2>1. chan # <<>> /\ chan \in Seq(Messages) /\ Len(chan) <= ChanSize
    BY <1>2 DEF Take, ClientTypes
  <2>2. Head(chan) \in Messages /\ ClientTypes'
    BY <1>2, <2>1, QueueFacts, BoundsAssumption DEF Take, ClientTypes
  <2>3. buf \in Seq(Messages) /\ Len(buf) < BatchSize /\ buf' = Append(buf, Head(chan))
    BY <1>2 DEF Take, WriterTypes, BatchRoom
  <2>4. buf' \in Seq(Messages) /\ Len(buf') = Len(buf) + 1 /\ Len(buf) \in Nat
    BY <2>2, <2>3, QueueFacts
  <2>5. Len(buf') <= BatchSize
    BY <2>3, <2>4, BoundsAssumption
  <2>6. /\ pc' \in {"select", "mark"} /\ flushAt' \in Nat
        /\ pc' = "select" => Len(buf') < BatchSize
    BY <1>2, <2>4, BoundsAssumption DEF Take, BeginFlush, Full, WriterTypes, OutsideTypes
  <2>7. WriterTypes' /\ BatchRoom'
    BY <1>2, <2>4, <2>5, <2>6 DEF Take, WriterTypes, BatchRoom, DbSteps, NotRunning
  <2>8. CounterTypes' /\ TableTypes' /\ OutsideTypes'
    BY <1>2 DEF Take, tables, CounterTypes, TableTypes, OutsideTypes
  <2> QED
    BY <2>2, <2>7, <2>8
<1>3. CASE TickerFires \/ ContextDone
  <2>1. WriterTypes' /\ BatchRoom'
    BY <1>3 DEF TickerFires, ContextDone, BeginFlush, WriterTypes, BatchRoom, OutsideTypes,
                DbSteps, NotRunning
  <2>2. ClientTypes' /\ CounterTypes' /\ TableTypes' /\ OutsideTypes'
    BY <1>3 DEF TickerFires, ContextDone, client, counters, tables, ClientTypes, CounterTypes,
                TableTypes, OutsideTypes
  <2> QED
    BY <2>1, <2>2
<1>4. CASE MarkDuplicates
  <2>1. Batch \subseteq Messages
    BY BatchIsTyped
  <2>2. Recorded \subseteq [fp : Fingerprints, seen : Nat]
    BY <2>1 DEF Recorded, TableTypes, OutsideTypes, Fingerprints
  <2>3. flags' \subseteq Messages /\ window' \subseteq [fp : Fingerprints, seen : Nat]
    BY <1>4, <2>1, <2>2 DEF MarkDuplicates, Flagged, Left, TableTypes
  <2>4. TableTypes'
    BY <1>4, <2>3 DEF MarkDuplicates, TableTypes
  <2>5. fresh' \subseteq Vessels
    BY <1>4 DEF MarkDuplicates, WriterTypes
  <2> QED
    BY <1>4, <2>3, <2>4, <2>5, StatementIsTyped DEF MarkDuplicates, DbSteps
<1>5. CASE CopyRaw
  <2>1. RawRows \subseteq [msg : Messages, received : Nat, dup : BOOLEAN]
    <3>1. Batch \subseteq Messages /\ flushAt \in Nat
      BY BatchIsTyped DEF WriterTypes
    <3>2. ASSUME NEW m \in Batch
          PROVE  [msg |-> m, received |-> flushAt, dup |-> m \in flags]
                   \in [msg : Messages, received : Nat, dup : BOOLEAN]
      BY <3>1
    <3> QED
      BY <3>2 DEF RawRows
  <2>2. TableTypes'
    BY <1>5, <2>1 DEF CopyRaw, Left, TableTypes
  <2> QED
    BY <1>5, <2>2, StatementIsTyped DEF CopyRaw, DbSteps, WriterTypes
<1>6. CASE CopyPositions
  <2>1. TableTypes'
    BY <1>6, BatchIsTyped DEF CopyPositions, Left, TableTypes
  <2> QED
    BY <1>6, <2>1, StatementIsTyped DEF CopyPositions, DbSteps, WriterTypes
<1>7. CASE UpsertVessels
  <2>1. Sightings \subseteq Vessels
    BY BatchIsTyped
  <2>2. TableTypes'
    BY <1>7, <2>1 DEF UpsertVessels, Left, TableTypes
  <2> QED
    BY <1>7, <2>1, <2>2, StatementIsTyped DEF UpsertVessels, FirstSeen, DbSteps, WriterTypes
<1>8. CASE UpsertLastPositions
  <2>1. last' \in [Vessels -> FixType \cup {NoFix}]
    BY <1>8, UpsertMovesForward DEF UpsertLastPositions, Left, TableTypes
  <2>2. TableTypes'
    BY <1>8, <2>1 DEF UpsertLastPositions, TableTypes
  <2> QED
    BY <1>8, <2>2, StatementIsTyped DEF UpsertLastPositions, DbSteps, WriterTypes
<1>9. CASE EnqueueEnrichment
  <2>1. jobs' \in [Vessels -> Nat]
    BY <1>9 DEF EnqueueEnrichment, TableTypes
  <2>2. TableTypes'
    BY <1>9, <2>1 DEF EnqueueEnrichment, TableTypes
  <2> QED
    BY <1>9, <2>2, StatementIsTyped DEF EnqueueEnrichment, DbSteps, WriterTypes
<1>10. CASE Publish
  <2>1. ctx' \in {"live", "cancelling", "cancelled"} /\ faults' \in Nat
    BY <1>10, OutcomeIsTyped DEF Publish
  <2>2. Updates \subseteq [msg : Messages, at : Nat]
    <3>1. Located \subseteq Messages
      BY BatchIsTyped
    <3>2. \A m \in Messages : m.reported \in Nat \cup {NoTime}
      BY MessagesAssumption DEF MessageType
    <3> QED
      BY <3>1, <3>2 DEF Updates, OutsideTypes
  <2>3. OutsideTypes'
    BY <1>10, <2>1, <2>2 DEF Publish, OutsideTypes
  <2>4. Len(buf) \in Nat
    BY QueueFacts DEF WriterTypes
  <2>5. TableTypes' /\ CounterTypes' /\ ClientTypes'
    BY <1>10, <2>4 DEF Publish, Left, TableTypes, CounterTypes, ClientTypes, client
  <2>6. WriterTypes' /\ BatchRoom'
    BY <1>10, <2>1, EndBatchIsTyped DEF Publish
  <2> QED
    BY <2>3, <2>5, <2>6
<1>11. CASE Purge \/ PruneRaw
  BY <1>11 DEF Purge, PruneRaw, client, writer, ClientTypes, CounterTypes, WriterTypes,
               TableTypes, OutsideTypes, BatchRoom
<1>12. CASE Tick
  BY <1>12 DEF Tick, client, writer, tables, ClientTypes, CounterTypes, WriterTypes, TableTypes,
               OutsideTypes, BatchRoom
<1>13. CASE Cancel
  BY <1>13 DEF Cancel, client, counters, tables, ClientTypes, CounterTypes, WriterTypes,
               TableTypes, OutsideTypes, BatchRoom
<1>14. CASE Kill
  <2>1. /\ chan' \in Seq(Messages) /\ Len(chan') = 0
        /\ buf' \in Seq(Messages) /\ Len(buf') = 0
    BY <1>14, EmptyQueue DEF Kill
  <2>3. ClientTypes' /\ WriterTypes' /\ BatchRoom'
    <3>1. Len(chan') <= ChanSize /\ Len(buf') <= BatchSize /\ Len(buf') < BatchSize
      BY <2>1, BoundsAssumption
    <3> QED
      BY <1>14, <2>1, <3>1 DEF Kill, ClientTypes, WriterTypes, BatchRoom, NotRunning
  <2>2. CounterTypes' /\ TableTypes' /\ OutsideTypes'
    BY <1>14 DEF Kill, tables, CounterTypes, TableTypes, OutsideTypes
  <2> QED
    BY <2>2, <2>3
<1>15. CASE DbCrash
  <2>1. ClientTypes' /\ CounterTypes' /\ WriterTypes' /\ BatchRoom'
    BY <1>15 DEF DbCrash, client, writer, ClientTypes, CounterTypes, WriterTypes, BatchRoom
  <2>2. TableTypes' /\ OutsideTypes'
    BY <1>15 DEF DbCrash, EmptyCache, TableTypes, OutsideTypes
  <2> QED
    BY <2>1, <2>2
<1>16. CASE Start
  <2>1. {Fix(r.msg, r.received) : r \in raw} \subseteq FixType
    BY FixIsTyped DEF TableTypes
  <2>2. last' \in [Vessels -> FixType \cup {NoFix}]
    BY <1>16, <2>1 DEF Start, Rebuilt, TableTypes
  <2>3. TableTypes' /\ OutsideTypes' /\ CounterTypes'
    BY <1>16, <2>2 DEF Start, TableTypes, OutsideTypes, CounterTypes
  <2>4. ClientTypes' /\ WriterTypes' /\ BatchRoom'
    BY <1>16, EmptyQueue, BoundsAssumption
       DEF Start, ClientTypes, WriterTypes, BatchRoom, NotRunning
  <2> QED
    BY <2>3, <2>4
<1>17. CASE UNCHANGED vars
  BY <1>17 DEF vars, client, writer, tables, ClientTypes, CounterTypes, WriterTypes, TableTypes,
               OutsideTypes, BatchRoom
<1> QED
  BY <1>1, <1>2, <1>3, <1>4, <1>5, <1>6, <1>7, <1>8, <1>9, <1>10, <1>11, <1>12, <1>13, <1>14,
     <1>15, <1>16, <1>17
     DEF Next, Writer, Statement

LEMMA InitIsTyped ==
  ASSUME Init
  PROVE  Typed
<1>1. chan \in Seq(Messages) /\ Len(chan) = 0 /\ buf \in Seq(Messages) /\ Len(buf) = 0
  BY EmptyQueue DEF Init
<1>2. ClientTypes /\ WriterTypes /\ BatchRoom
  <2>1. Len(chan) <= ChanSize /\ Len(buf) <= BatchSize /\ Len(buf) < BatchSize
    BY <1>1, BoundsAssumption
  <2> QED
    BY <1>1, <2>1 DEF Init, ClientTypes, WriterTypes, BatchRoom, NotRunning
<1>3. CounterTypes /\ TableTypes /\ OutsideTypes
  BY DEF Init, CounterTypes, TableTypes, OutsideTypes, EmptyCache
<1> QED
  BY <1>2, <1>3 DEF Typed, TypeOK

\* Type correctness of the ingest path.
THEOREM TypesHold == Spec => []TypeOK
<1>1. Typed => TypeOK
  BY DEF Typed
<1> QED
  BY <1>1, InitIsTyped, StepKeepsTypes, PTL DEF Spec

-----------------------------------------------------------------------------
(* The tables a flush leaves.                                              *)

\* What a flush is about depends on the batch, its flags and its time alone.
LEMMA SameBatch ==
  ASSUME UNCHANGED <<buf, flags, flushAt>>
  PROVE  UNCHANGED <<Batch, Kept, Located, RawRows, BatchFixes, Sightings>>
  BY DEF Batch, Kept, Located, RawRows, BatchFixes, Sightings

\* A statement's outcome either adds its rows to a table or leaves the table.
LEMMA LeftGrows ==
  ASSUME NEW old, NEW rows, NEW new \in Left(old, old \cup rows)
  PROVE  old \subseteq new /\ new \subseteq old \cup rows
  BY DEF Left

\* The archive, the positions and the vessels only grow, and positions gains the
\* batch's fixes only.
LEMMA TablesGrow ==
  ASSUME [Next]_vars
  PROVE  /\ archived \subseteq archived' /\ vessels \subseteq vessels' /\ positions \subseteq positions'
         /\ positions' = positions \/ (pc = "positions" /\ positions' \subseteq positions \cup BatchFixes)
         /\ feed' = feed \/ (pc = "publish" /\ Publish)
         /\ now' = now \/ Tick
<1>1. CASE CopyRaw
  BY <1>1, LeftGrows DEF CopyRaw
<1>2. CASE CopyPositions
  BY <1>2, LeftGrows DEF CopyPositions
<1>3. CASE UpsertVessels
  BY <1>3, LeftGrows DEF UpsertVessels
<1>4. CASE UNCHANGED <<archived, positions, vessels>> /\ UNCHANGED <<feed, now>>
  BY <1>4
<1>5. CASE Publish
  BY <1>5 DEF Publish
<1>6. CASE Tick
  BY <1>6 DEF Tick, tables
<1> QED
  BY <1>1, <1>2, <1>3, <1>4, <1>5, <1>6
     DEF Next, Writer, Statement, Emit, Take, TickerFires, ContextDone, MarkDuplicates,
         UpsertLastPositions, EnqueueEnrichment, Purge, PruneRaw, Cancel, Kill, DbCrash, Start,
         vars, tables

\* Statements passed by the flush: each step either goes on to the next statement
\* having left the rows of its own, or leaves the flush.
LEMMA StepLeavesRows ==
  ASSUME Typed, Typed', FlushLeavesRows, [Next]_vars
  PROVE  FlushLeavesRows'
<1> USE DEF FlushLeavesRows
<1>1. flushAt \in Nat /\ now \in Nat
  BY DEF Typed, TypeOK, WriterTypes, OutsideTypes
<1>2. CASE pc' \in {"select", "stopped", "down", "mark"} /\ flushAt' \in {0, now, flushAt} /\ now' = now
  BY <1>1, <1>2
<1>3. CASE MarkDuplicates
  BY <1>3 DEF MarkDuplicates, Advance
<1>4. CASE CopyRaw
  <2>1. CASE Abandon
    BY <1>1, <1>4, <2>1 DEF CopyRaw, Abandon, EndBatch
  <2>2. CASE raw' = raw \cup RawRows /\ Advance("positions") /\ UNCHANGED <<flags, fresh>>
    BY <1>4, <2>2, SameBatch DEF CopyRaw, Advance
  <2> QED
    BY <1>4, <2>1, <2>2 DEF CopyRaw
<1>5. CASE CopyPositions
  <2>1. CASE Abandon
    BY <1>1, <1>5, <2>1 DEF CopyPositions, Abandon, EndBatch
  <2>2. CASE positions' = positions \cup BatchFixes /\ Advance("vessels") /\ UNCHANGED <<flags, fresh>>
    BY <1>5, <2>2, SameBatch DEF CopyPositions, Advance
  <2> QED
    BY <1>5, <2>1, <2>2 DEF CopyPositions
<1>6. CASE UpsertVessels
  <2>1. CASE Abandon
    BY <1>1, <1>6, <2>1 DEF UpsertVessels, Abandon, EndBatch
  <2>2. CASE vessels' = vessels \cup Sightings /\ Advance("last") /\ UNCHANGED flags
    BY <1>6, <2>2, SameBatch DEF UpsertVessels, Advance
  <2> QED
    BY <1>6, <2>1, <2>2 DEF UpsertVessels
<1>7. CASE UpsertLastPositions
  <2>1. CASE Abandon
    BY <1>1, <1>7, <2>1 DEF UpsertLastPositions, Abandon, EndBatch
  <2>2. CASE Advance("enqueue") /\ UNCHANGED <<flags, fresh>>
    BY <1>7, <2>2, SameBatch DEF UpsertLastPositions, Advance
  <2> QED
    BY <1>7, <2>1, <2>2 DEF UpsertLastPositions
<1>8. CASE EnqueueEnrichment
  BY <1>8, SameBatch DEF EnqueueEnrichment, Advance
<1>9. CASE Publish
  BY <1>1, <1>9 DEF Publish, EndBatch
<1>10. CASE Tick
  <2>1. UNCHANGED <<buf, flags, flushAt, pc, archived, positions, vessels>> /\ now' = now + 1
    BY <1>10 DEF Tick, writer, tables
  <2> QED
    BY <1>1, <2>1, SameBatch
<1>11. CASE UNCHANGED <<buf, flags, flushAt, pc, archived, positions, vessels, now>>
  BY <1>11, SameBatch
<1>12. CASE Take \/ TickerFires \/ ContextDone \/ Kill \/ Start
  BY <1>1, <1>2, <1>12 DEF Take, TickerFires, ContextDone, Kill, Start, BeginFlush, NotRunning
<1> QED
  BY <1>3, <1>4, <1>5, <1>6, <1>7, <1>8, <1>9, <1>10, <1>11, <1>12
     DEF Next, Writer, Statement, Emit, Purge, PruneRaw, Cancel, DbCrash, vars, writer, tables

\* A vessel gets its job at most once, because it is fresh at most once.
LEMMA StepEnqueuesOnce ==
  ASSUME Typed, FreshHasNoJob, EnqueuedAtMostOnce, [Next]_vars
  PROVE  FreshHasNoJob' /\ EnqueuedAtMostOnce'
<1> USE DEF FreshHasNoJob, EnqueuedAtMostOnce
<1>1. jobs \in [Vessels -> Nat]
  BY DEF Typed, TypeOK, TableTypes
<1>2. vessels \subseteq vessels'
  BY TablesGrow
<1>3. CASE UpsertVessels
  <2>1. CASE Abandon
    BY <1>1, <1>2, <1>3, <2>1 DEF UpsertVessels, Abandon, EndBatch
  <2>2. CASE /\ vessels' = vessels \cup Sightings /\ fresh' = Sightings \ vessels
             /\ Advance("last")
    <3>1. fresh' \subseteq Vessels /\ jobs' = jobs
      BY <1>3, <2>2, BatchIsTyped DEF Typed, UpsertVessels
    <3> QED
      BY <1>1, <1>2, <2>2, <3>1
  <2> QED
    BY <1>3, <2>1, <2>2 DEF UpsertVessels, FirstSeen
<1>4. CASE EnqueueEnrichment
  <2>1. PICK done \in SUBSET fresh :
          jobs' = [v \in Vessels |-> jobs[v] + IF v \in done THEN 1 ELSE 0]
    BY <1>4 DEF EnqueueEnrichment
  <2>2. vessels' = vessels /\ pc' = "publish" /\ pc = "enqueue"
    BY <1>4 DEF EnqueueEnrichment, Advance
  <2>3. ASSUME NEW v \in Vessels
        PROVE  jobs'[v] <= 1 /\ (jobs'[v] = 1 => v \in vessels')
    <3>1. CASE v \in done
      BY <1>1, <2>1, <2>2, <3>1
    <3>2. CASE v \notin done
      BY <1>1, <2>1, <2>2, <3>2
    <3> QED
      BY <3>1, <3>2
  <2> QED
    BY <2>2, <2>3
<1>5. CASE jobs' = jobs /\ pc' \notin {"last", "enqueue"}
  BY <1>1, <1>2, <1>5
<1>6. CASE jobs' = jobs /\ fresh' = fresh /\ pc \in {"last", "enqueue"}
  BY <1>1, <1>2, <1>6
<1>7. CASE jobs' = jobs /\ fresh' = fresh /\ pc' = pc
  BY <1>1, <1>2, <1>7
<1> QED
  BY <1>3, <1>4, <1>5, <1>6, <1>7
     DEF Next, Writer, Statement, Emit, Take, TickerFires, ContextDone, BeginFlush, MarkDuplicates,
         CopyRaw, CopyPositions, UpsertLastPositions, Publish, Advance, Abandon, EndBatch, Purge,
         PruneRaw, Tick, Cancel, Kill, DbCrash, Start, vars, writer, tables

\* A kept message's raw row is untagged.
LEMMA KeptIsUntagged ==
  ASSUME NEW m \in Kept
  PROVE  \E r \in RawRows : r.msg = m /\ r.received = flushAt /\ ~r.dup
<1> DEFINE row == [msg |-> m, received |-> flushAt, dup |-> m \in flags]
<1>1. m \in Batch /\ ~(m \in flags)
  BY DEF Kept
<1>2. row \in RawRows
  BY <1>1, Zenon DEF RawRows
<1>3. row.msg = m /\ row.received = flushAt
  OBVIOUS
<1>4. row.dup = (m \in flags)
  BY Zenon
<1>5. ~row.dup
  BY <1>1, <1>4, Zenon
<1> QED
  BY <1>2, <1>3, <1>5

\* A position row is written from a batch whose raw rows are already archived.
LEMMA StepFollowsArchive ==
  ASSUME Typed, FlushLeavesRows, PositionsFollowArchive, [Next]_vars
  PROVE  PositionsFollowArchive'
<1>1. archived \subseteq archived' /\ (positions' = positions \/
        (pc = "positions" /\ positions' \subseteq positions \cup BatchFixes))
  BY TablesGrow
<1>2. ASSUME NEW p \in BatchFixes, pc = "positions"
      PROVE  \E r \in archived : r.msg = p.msg /\ r.received = p.received /\ ~r.dup
  <2>1. PICK m \in Located : p = Fix(m, flushAt)
    BY <1>2 DEF BatchFixes
  <2>2. p.msg = m /\ p.received = flushAt
    BY <2>1 DEF Fix
  <2>3. m \in Kept
    BY DEF Located
  <2>4. \E r \in RawRows : r.msg = m /\ r.received = flushAt /\ ~r.dup
    BY <2>3, KeptIsUntagged
  <2> QED
    BY <1>2, <2>2, <2>4 DEF FlushLeavesRows
<1> QED
  BY <1>1, <1>2 DEF PositionsFollowArchive

\* What is published has been through every statement of its flush.
LEMMA StepPublishesStored ==
  ASSUME Typed, FlushLeavesRows, PublishedIsStored, [Next]_vars
  PROVE  PublishedIsStored'
<1>1. archived \subseteq archived' /\ positions \subseteq positions' /\ vessels \subseteq vessels'
  BY TablesGrow
<1>2. ASSUME NEW u \in Updates, pc = "publish"
      PROVE  /\ u.msg.mmsi \in vessels
             /\ \E r \in archived : r.msg = u.msg /\ ~r.dup
             /\ \E p \in positions : p.msg = u.msg /\ p.reported <= u.at
  <2>1. PICK m \in Located :
          u = [msg |-> m, at |-> IF m.reported = NoTime THEN now ELSE m.reported]
    BY <1>2 DEF Updates
  <2>2. u.msg = m /\ u.at = IF m.reported = NoTime THEN now ELSE m.reported
    BY <2>1
  <2>3. m \in Kept /\ m \in Batch /\ m \notin flags /\ m \in Messages
    BY BatchIsTyped DEF Located, Kept, Typed
  <2>4. m.mmsi \in vessels
    BY <1>2, <2>3 DEF FlushLeavesRows, Sightings
  <2>5. \E r \in RawRows : r.msg = m /\ r.received = flushAt /\ ~r.dup
    BY <2>3, KeptIsUntagged
  <2>6. \E r \in archived : r.msg = m /\ ~r.dup
    BY <1>2, <2>5 DEF FlushLeavesRows
  <2>7. Fix(m, flushAt) \in positions /\ Fix(m, flushAt).msg = m
    BY <1>2 DEF FlushLeavesRows, BatchFixes, Fix
  <2>8. m.reported \in Nat \cup {NoTime} /\ flushAt \in Nat /\ now \in Nat /\ flushAt <= now
    BY <2>3, MessagesAssumption
       DEF MessageType, FlushLeavesRows, Typed, TypeOK, WriterTypes, OutsideTypes
  <2>9. Fix(m, flushAt).reported <= u.at
    BY <2>2, <2>8 DEF Fix, NoTime
  <2> QED
    BY <2>2, <2>4, <2>6, <2>7, <2>9
<1>3. feed' \subseteq feed \/ (pc = "publish" /\ feed' \subseteq feed \cup Updates)
  BY TablesGrow DEF Publish
<1>4. ASSUME NEW u \in feed'
      PROVE  /\ u.msg.mmsi \in vessels
             /\ \E r \in archived : r.msg = u.msg /\ ~r.dup
             /\ \E p \in positions : p.msg = u.msg /\ p.reported <= u.at
  BY <1>2, <1>3 DEF PublishedIsStored
<1> QED
  BY <1>1, <1>4 DEF PublishedIsStored

\* The inductive invariant of the tables.
LEMMA ConsistentIsInductive ==
  ASSUME Typed, Typed', TablesConsistent, [Next]_vars
  PROVE  TablesConsistent'
  BY StepLeavesRows, StepEnqueuesOnce, StepFollowsArchive, StepPublishesStored
     DEF TablesConsistent

LEMMA InitIsConsistent ==
  ASSUME Init
  PROVE  TablesConsistent
  BY DEF Init, TablesConsistent, FlushLeavesRows, FreshHasNoJob, PositionsFollowArchive,
         PublishedIsStored, EnqueuedAtMostOnce

\* The tables stay consistent through every failure, cancellation, crash and
\* restart, for any messages, batch size and channel.
THEOREM ConsistencyHolds == Spec => []TablesConsistent
<1>1. Init => Typed /\ TablesConsistent
  BY InitIsTyped, InitIsConsistent
<1>2. Typed /\ TablesConsistent /\ [Next]_vars => (Typed /\ TablesConsistent)'
  BY StepKeepsTypes, ConsistentIsInductive
<1> QED
  BY <1>1, <1>2, PTL DEF Spec

\* Subscribers never see a fix that failed to persist.
THEOREM PublishedIsStoredHolds == Spec => []PublishedIsStored
<1>1. TablesConsistent => PublishedIsStored
  BY DEF TablesConsistent
<1> QED
  BY <1>1, ConsistencyHolds, PTL

\* No vessel is ever enqueued for enrichment twice.
THEOREM EnqueuedAtMostOnceHolds == Spec => []EnqueuedAtMostOnce
<1>1. TablesConsistent => EnqueuedAtMostOnce
  BY DEF TablesConsistent
<1> QED
  BY <1>1, ConsistencyHolds, PTL

\* No position row without an untagged archive row of its own.
THEOREM PositionsFollowArchiveHolds == Spec => []PositionsFollowArchive
<1>1. TablesConsistent => PositionsFollowArchive
  BY DEF TablesConsistent
<1> QED
  BY <1>1, ConsistencyHolds, PTL

-----------------------------------------------------------------------------
(* The counters.                                                           *)

\* A batch counts as written or as part of a counted error.
LEMMA StepAccounts ==
  ASSUME Typed, Typed', NoSilentLoss, [Next]_vars
  PROVE  NoSilentLoss'
<1>1. /\ batched \in Nat /\ rowsWritten \in Nat /\ flushErrors \in Nat
      /\ Len(buf) \in Nat /\ Len(buf) <= BatchSize /\ BatchSize \in Nat
  BY QueueFacts, BoundsAssumption DEF Typed, TypeOK, CounterTypes, WriterTypes
<1>2. /\ batched - rowsWritten - Len(buf) >= 0
      /\ batched - rowsWritten - Len(buf) <= flushErrors * BatchSize
  BY DEF NoSilentLoss
<1>3. CASE UNCHANGED <<batched, rowsWritten, flushErrors, buf>>
  BY <1>3 DEF NoSilentLoss
<1>4. CASE Take
  <2>1. Head(chan) \in Messages
    BY <1>4, QueueFacts DEF Take, Typed, TypeOK, ClientTypes
  <2>2. Len(buf') = Len(buf) + 1
    BY <1>4, <2>1, QueueFacts DEF Take, Typed, TypeOK, WriterTypes
  <2> QED
    BY <1>1, <1>2, <1>4, <2>2 DEF Take, NoSilentLoss
<1>5. CASE Abandon
  <2>1. Len(buf') = 0 /\ flushErrors' = flushErrors + 1 /\ UNCHANGED <<batched, rowsWritten>>
    BY <1>5, EmptyQueue DEF Abandon, EndBatch
  <2>2. (flushErrors + 1) * BatchSize = flushErrors * BatchSize + BatchSize
    BY <1>1
  <2> QED
    BY <1>1, <1>2, <2>1, <2>2 DEF NoSilentLoss
<1>6. CASE Publish
  <2>1. /\ Len(buf') = 0 /\ rowsWritten' = rowsWritten + Len(buf)
        /\ UNCHANGED <<batched, flushErrors>>
    BY <1>6, EmptyQueue DEF Publish, EndBatch
  <2> QED
    BY <1>1, <1>2, <2>1 DEF NoSilentLoss
<1>7. CASE batched' = 0 /\ rowsWritten' = 0 /\ flushErrors' = 0 /\ buf' = <<>>
  <2>1. Len(buf') = 0 /\ 0 * BatchSize = 0
    BY <1>1, <1>7, EmptyQueue
  <2> QED
    BY <1>7, <2>1 DEF NoSilentLoss
<1>8. CASE Kill \/ Start
  BY <1>7, <1>8 DEF Kill, Start, Typed, BatchRoom, NotRunning
<1> QED
  BY <1>3, <1>4, <1>5, <1>6, <1>8
     DEF Next, Writer, Statement, Emit, TickerFires, ContextDone, MarkDuplicates, CopyRaw,
         CopyPositions, UpsertVessels, UpsertLastPositions, EnqueueEnrichment, Advance, Purge, PruneRaw,
         Tick, Cancel, DbCrash, vars, writer, counters

\* The writer loses no message without counting an error for its batch.
THEOREM NoSilentLossHolds == Spec => []NoSilentLoss
<1>1. ASSUME Init
      PROVE  NoSilentLoss
  <2>1. Len(buf) = 0 /\ batched = 0 /\ rowsWritten = 0 /\ flushErrors = 0 /\ 0 * BatchSize = 0
    BY <1>1, EmptyQueue, BoundsAssumption DEF Init
  <2> QED
    BY <2>1 DEF NoSilentLoss
<1>2. Init => Typed /\ NoSilentLoss
  BY <1>1, InitIsTyped
<1>3. Typed /\ NoSilentLoss /\ [Next]_vars => (Typed /\ NoSilentLoss)'
  BY StepKeepsTypes, StepAccounts
<1> QED
  BY <1>2, <1>3, PTL DEF Spec

-----------------------------------------------------------------------------
(* The ingest path implements the live map.                                *)

Archive == {Fix(r.msg, r.received) : r \in archived}

\* An upsert moves the cache to fixes that the flush has archived.
LEMMA UpsertRefreshes ==
  ASSUME Typed, FlushLeavesRows, UpsertLastPositions
  PROVE  Map!Refresh
<1>1. last' \in {last, Upserted}
  BY DEF UpsertLastPositions, Left
<1>2. BatchFixes \subseteq Archive
  <2>1. ASSUME NEW m \in Located
        PROVE  Fix(m, flushAt) \in Archive
    <3>1. PICK r \in RawRows : r.msg = m /\ r.received = flushAt
      BY KeptIsUntagged DEF Located
    <3>2. r \in archived
      BY <3>1 DEF FlushLeavesRows, UpsertLastPositions
    <3> QED
      BY <3>1, <3>2 DEF Archive
  <2> QED
    BY <2>1 DEF BatchFixes
<1>3. last \in [Vessels -> FixType \cup {NoFix}] /\ Upserted \in [Vessels -> FixType \cup {NoFix}]
  BY UpsertMovesForward DEF Typed, TypeOK, TableTypes
<1>4. last' = [v \in Vessels |-> last'[v]]
  BY <1>1, <1>3
<1>5. ASSUME NEW v \in Vessels
      PROVE  \/ last'[v] = last[v]
             \/ /\ last'[v] \in Archive /\ last'[v].msg.mmsi = v
                /\ last'[v].reported >= last[v].reported
  BY <1>1, <1>2, UpsertMovesForward DEF Typed
<1>6. UNCHANGED <<archived, feed>>
  BY DEF UpsertLastPositions
<1> QED
  BY <1>4, <1>5, <1>6 DEF Map!Refresh, Map!MayReplace, Archive

\* A start refreshes an empty cache from the archive and leaves another alone.
LEMMA StartRefreshes ==
  ASSUME Typed, Start
  PROVE  Map!Refresh
<1>1. raw \subseteq archived /\ archived \subseteq [msg : Messages, received : Nat, dup : BOOLEAN]
      /\ last \in [Vessels -> FixType \cup {NoFix}]
  BY DEF Typed, TypeOK, TableTypes
<1>2. UNCHANGED <<archived, feed>>
  BY DEF Start
<1>3. CASE last' = last
  BY <1>1, <1>2, <1>3 DEF Map!Refresh, Map!MayReplace
<1>4. CASE last' # last
  <2>1. /\ \A v \in Vessels : last[v] = NoFix
        /\ last' \in [Vessels -> Archive \cup {NoFix}]
        /\ \A v \in Vessels : last'[v] \in NewestArchived(v) \/ last'[v] = NoFix
    BY <1>1, <1>4 DEF Start, Rebuilt, Archive
  <2>2. ASSUME NEW v \in Vessels
        PROVE  \/ last'[v] = last[v]
               \/ /\ last'[v] \in Archive /\ last'[v].msg.mmsi = v
                  /\ last'[v].reported >= last[v].reported
    <3>1. CASE last'[v] = NoFix
      BY <2>1, <3>1
    <3>2. CASE last'[v] \in NewestArchived(v)
      <4>1. PICK r \in raw : last'[v] = Fix(r.msg, r.received) /\ r.msg.mmsi = v
        BY <3>2 DEF NewestArchived, Archived
      <4>2. last'[v] \in Archive /\ last'[v].msg.mmsi = v
        BY <1>1, <4>1 DEF Archive, Fix
      <4>3. last'[v].reported \in Nat
        BY <1>1, <4>1, FixIsTyped DEF FixType
      <4>4. last[v].reported = -1
        BY <2>1 DEF NoFix
      <4> QED
        BY <4>2, <4>3, <4>4
    <3> QED
      BY <2>1, <3>1, <3>2
  <2> QED
    BY <1>2, <2>1, <2>2 DEF Map!Refresh, Map!MayReplace, Archive
<1> QED
  BY <1>3, <1>4

\* What is published is in the archive.
LEMMA PublishIsArchived ==
  ASSUME Typed, FlushLeavesRows, Publish
  PROVE  Map!Publish
<1>1. feed' = feed \cup Updates /\ UNCHANGED <<archived, last>> /\ pc = "publish"
  BY DEF Publish
<1>2. ASSUME NEW u \in Updates
      PROVE  u.msg \in {f.msg : f \in Archive}
  <2>1. u.msg \in Kept
    BY DEF Updates, Located
  <2>2. PICK r \in RawRows : r.msg = u.msg
    BY <2>1, KeptIsUntagged
  <2>3. Fix(r.msg, r.received) \in Archive /\ Fix(r.msg, r.received).msg = u.msg
    BY <1>1, <2>2 DEF FlushLeavesRows, Archive, Fix
  <2> QED
    BY <2>3
<1> QED
  BY <1>1, <1>2 DEF Map!Publish, Archive

LEMMA StepImplementsMap ==
  ASSUME Typed, FlushLeavesRows, [Next]_vars
  PROVE  [Map!Next]_(Map!vars)
<1>1. CASE CopyRaw
  <2>1. archived \subseteq archived' /\ UNCHANGED <<last, feed>>
    BY <1>1, TablesGrow DEF CopyRaw
  <2> QED
    BY <2>1 DEF Map!Next, Map!Archive
<1>2. CASE UpsertLastPositions
  BY <1>2, UpsertRefreshes DEF Map!Next
<1>3. CASE Start
  BY <1>3, StartRefreshes DEF Map!Next
<1>4. CASE Publish
  BY <1>4, PublishIsArchived DEF Map!Next
<1>5. CASE DbCrash
  BY <1>5 DEF DbCrash, EmptyCache, Map!Next, Map!Truncate, Map!Empty
<1>6. CASE UNCHANGED <<archived, last, feed>>
  BY <1>6 DEF Map!vars
<1> QED
  BY <1>1, <1>2, <1>3, <1>4, <1>5, <1>6
     DEF Next, Writer, Statement, Emit, Take, TickerFires, ContextDone, MarkDuplicates,
         CopyPositions, UpsertVessels, EnqueueEnrichment, Purge, PruneRaw, Tick, Cancel, Kill,
         vars, tables

\* Every behaviour of the ingest path, failures and crashes included, is one of
\* the live map: the cache only moves forward to archived fixes, and only
\* archived messages are published.
THEOREM IngestImplementsLiveMap == Spec => MapSpec
<1>1. Init => Map!Init
  BY DEF Init, EmptyCache, Map!Init, Map!Empty
<1>2. Typed /\ TablesConsistent => FlushLeavesRows
  BY DEF TablesConsistent
<1>3. Init => Typed /\ TablesConsistent
  BY InitIsTyped, InitIsConsistent
<1>4. Typed /\ TablesConsistent /\ [Next]_vars => (Typed /\ TablesConsistent)'
  BY StepKeepsTypes, ConsistentIsInductive
<1>5. Typed /\ TablesConsistent /\ [Next]_vars => [Map!Next]_(Map!vars)
  BY <1>2, StepImplementsMap
<1> QED
  BY <1>1, <1>3, <1>4, <1>5, PTL DEF Spec, MapSpec, Map!Spec
=============================================================================
