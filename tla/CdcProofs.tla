------------------------------ MODULE CdcProofs ------------------------------
(***************************************************************************)
(* For every set of transactions, every length of messages and every bound:*)
(* the consumer is well typed, and it misses only changes whose commit it  *)
(* overshot.  The argument: whatever position the slot or the consumer     *)
(* keeps is covered (ProgressIsCovered), because a session handles the     *)
(* transactions in the order of their commits and a message's start is     *)
(* never past the commit it belongs to; what the length adds to the start  *)
(* is overshot by definition.                                              *)
(***************************************************************************)
EXTENDS Cdc, TLAPS

-----------------------------------------------------------------------------
(* The WAL only grows.                                                     *)

LEMMA AppendFacts ==
  ASSUME NEW S, NEW s \in Seq(S), NEW e \in S
  PROVE  /\ Append(s, e) \in Seq(S)
         /\ Len(Append(s, e)) = Len(s) + 1
         /\ \A i \in DOMAIN s : Append(s, e)[i] = s[i]
         /\ Append(s, e)[Len(s) + 1] = e
         /\ DOMAIN s = 1 .. Len(s)
         /\ DOMAIN Append(s, e) = 1 .. Len(s) + 1
  OBVIOUS

\* A written record is of the right type.
LEMMA WriteAppends ==
  ASSUME TypeOK, NEW t \in Txns, NEW op \in Ops, Write(t, op)
  PROVE  \E e \in Record :
           /\ wal' = Append(wal, e)
           /\ e.txn = t /\ e.op = op
<1>1. PICK n \in Lengths(op) : wal' = Append(wal, [txn |-> t, op |-> op, reach |-> n])
  BY DEF Write
<1>2. n \in Reach \cup {Bracket}
  BY DEF Lengths
<1>3. [txn |-> t, op |-> op, reach |-> n] \in Record
  BY <1>2 DEF Record
<1> QED
  BY <1>1, <1>3

-----------------------------------------------------------------------------
(* Types.                                                                  *)

LEMMA ProgressIsTyped ==
  ASSUME TypeOK, CdcAssumption, NEW start \in Nat, NEW n \in Reach \cup {Bracket},
         Progress(start, n)
  PROVE  /\ lastLSN' \in Nat
         /\ seen' \subseteq [start : Nat, reach : Reach \cup {Bracket}]
<1>1. n \in Nat
  BY DEF CdcAssumption
<1>2. [start |-> start, reach |-> n] \in [start : Nat, reach : Reach \cup {Bracket}]
  OBVIOUS
<1> QED
  BY <1>1, <1>2 DEF Progress, TypeOK

LEMMA InitTyped == Init => TypeOK
<1>1. Init => wal \in Seq(Record)
  BY DEF Init
<1> QED
  BY <1>1 DEF Init, TypeOK

LEMMA NextTyped == TypeOK /\ [Next]_vars => TypeOK'
<1> SUFFICES ASSUME TypeOK, [Next]_vars
             PROVE  TypeOK'
  OBVIOUS
<1> USE CdcAssumption
<1>1. ASSUME NEW t \in Txns, NEW op \in Ops, Write(t, op)
      PROVE  TypeOK'
  <2>1. PICK e \in Record : wal' = Append(wal, e)
    BY <1>1, WriteAppends
  <2>2. wal' \in Seq(Record) /\ Len(wal') = Len(wal) + 1 /\ DOMAIN wal \subseteq DOMAIN wal'
    BY <2>1, AppendFacts DEF TypeOK
  <2> QED
    BY <1>1, <2>2 DEF Write, TypeOK, slot, session
<1>2. CASE Start
  BY <1>2 DEF Start, EnsureSlot, TypeOK, slot, session
<1>3. CASE Connect
  BY <1>3 DEF Connect, TypeOK, slot
<1>4. CASE ReceiveBegin
  <2>1. PICK c \in DOMAIN wal, i \in DOMAIN wal : cur' = c /\ Progress(i, Bracket)
    BY <1>4 DEF ReceiveBegin
  <2>2. c \in 0 .. Len(wal) /\ i \in Nat
    BY DEF TypeOK
  <2>3. lastLSN' \in Nat /\ seen' \subseteq [start : Nat, reach : Reach \cup {Bracket}]
    BY <2>1, <2>2, ProgressIsTyped
  <2> QED
    BY <1>4, <2>1, <2>2, <2>3 DEF ReceiveBegin, TypeOK, slot
<1>5. CASE ReceiveChange
  <2>1. PICK i \in DOMAIN wal :
          handled' = handled \cup {i} /\ pos' = i /\ Progress(i, wal[i].reach)
    BY <1>5 DEF ReceiveChange
  <2>2. i \in Nat /\ wal[i] \in Record
    BY DEF TypeOK
  <2>3. wal[i].reach \in Reach \cup {Bracket}
    BY <2>2 DEF Record
  <2>4. lastLSN' \in Nat /\ seen' \subseteq [start : Nat, reach : Reach \cup {Bracket}]
    BY <2>1, <2>2, <2>3, ProgressIsTyped
  <2> QED
    BY <1>5, <2>1, <2>2, <2>4 DEF ReceiveChange, TypeOK, slot
<1>6. CASE SinkFails
  BY <1>6 DEF SinkFails, Faulty, EndSession, TypeOK, slot
<1>7. CASE ReceiveCommit
  <2>1. cur + 1 \in Nat
    BY DEF TypeOK
  <2>2. lastLSN' \in Nat /\ seen' \subseteq [start : Nat, reach : Reach \cup {Bracket}]
    BY <1>7, <2>1, ProgressIsTyped DEF ReceiveCommit
  <2> QED
    BY <1>7, <2>2 DEF ReceiveCommit, TypeOK, slot
<1>8. CASE SendStandby
  BY <1>8 DEF SendStandby, Ack, TypeOK, session
<1>9. CASE Disconnect
  BY <1>9 DEF Disconnect, Faulty, EndSession, TypeOK, slot
<1>10. CASE Stop
  BY <1>10 DEF Stop, TypeOK, slot
<1>11. CASE UNCHANGED vars
  BY <1>11 DEF vars, TypeOK, slot, session
<1> QED
  BY <1>1, <1>2, <1>3, <1>4, <1>5, <1>6, <1>7, <1>8, <1>9, <1>10, <1>11 DEF Next, Receive

\* The consumer's state, the slot and the session keep their types, and a
\* consumer runs only when there is a slot.
THEOREM CdcTypes == Spec => []TypeOK
BY InitTyped, NextTyped, PTL DEF Spec

-----------------------------------------------------------------------------
(* Coverage of a position.                                                 *)

\* What is covered stays covered when the sink and the history only grow.
LEMMA CoveredStays ==
  ASSUME NEW x, Covered(x), UNCHANGED <<wal, born>>,
         handled \subseteq handled', seen \subseteq seen'
  PROVE  Covered(x)'
BY DEF Covered, ChangeOf, IsCommit, Overshot

\* A record appended to the WAL either commits no covered change or is itself
\* before the position, hence overshot.
LEMMA CoveredThroughWrite ==
  ASSUME TypeOK, NEW t \in Txns, NEW op \in Ops, Write(t, op), NEW x \in Nat, Covered(x)
  PROVE  Covered(x)'
<1>1. PICK e \in Record : wal' = Append(wal, e) /\ e.txn = t /\ e.op = op
  BY WriteAppends
<1>2. /\ \A i \in DOMAIN wal : wal'[i] = wal[i]
      /\ wal'[Len(wal) + 1] = e
      /\ Len(wal') = Len(wal) + 1 /\ Len(wal) \in Nat
      /\ DOMAIN wal = 1 .. Len(wal) /\ DOMAIN wal' = 1 .. Len(wal) + 1
  BY <1>1, AppendFacts DEF TypeOK
<1>3. UNCHANGED <<born, handled, seen>>
  BY DEF Write, slot
<1>4. ASSUME NEW i \in DOMAIN wal', NEW c \in DOMAIN wal',
             ChangeOf(i, c)', born' <= i, c < x
      PROVE  i \in handled' \/ Overshot(c)'
  <2>1. CASE c = Len(wal) + 1
    BY <1>2, <1>3, <2>1, <1>4 DEF Covered, Overshot
  <2>2. CASE c \in DOMAIN wal
    <3>1. IsCommit(c)
      BY <1>2, <1>4, <2>2 DEF ChangeOf, IsCommit
    <3>2. wal[c].txn # t
      BY <3>1, <2>2 DEF Write, Open
    <3>3. i \in DOMAIN wal
      BY <1>1, <1>2, <1>4, <2>2, <3>2 DEF ChangeOf
    <3>4. ChangeOf(i, c)
      BY <1>2, <1>4, <2>2, <3>1, <3>3 DEF ChangeOf
    <3> QED
      BY <1>3, <1>4, <2>2, <3>3, <3>4 DEF Covered, Overshot
  <2> QED
    BY <1>2, <2>1, <2>2
<1>5. ASSUME NEW c \in Len(wal') + 1 .. x - 1
      PROVE  Overshot(c)'
  BY <1>2, <1>3, <1>5 DEF Covered, Overshot
<1> QED
  BY <1>4, <1>5 DEF Covered

\* Handling a message that starts at a covered position covers its progress.
LEMMA ProgressCovers ==
  ASSUME NEW start \in Nat, NEW n \in Nat, Covered(start), Progress(start, n),
         UNCHANGED <<wal, born>>, handled \subseteq handled', wal \in Seq(Record)
  PROVE  Covered(start + n)'
<1>1. seen \subseteq seen' /\ [start |-> start, reach |-> n] \in seen'
  BY DEF Progress
<1>2. ASSUME NEW c \in Nat, start <= c, c < start + n
      PROVE  Overshot(c)'
  BY <1>1, <1>2 DEF Overshot
<1>3. Covered(start)'
  BY <1>1, CoveredStays
<1>4. Len(wal') \in Nat /\ DOMAIN wal' \subseteq Nat
  OBVIOUS
<1>5. ASSUME NEW i \in DOMAIN wal', NEW c \in DOMAIN wal',
             ChangeOf(i, c)', born' <= i, c < start + n
      PROVE  i \in handled' \/ Overshot(c)'
  BY <1>2, <1>3, <1>4, <1>5 DEF Covered
<1>6. ASSUME NEW c \in Len(wal') + 1 .. start + n - 1
      PROVE  Overshot(c)'
  BY <1>2, <1>3, <1>4, <1>6 DEF Covered
<1> QED
  BY <1>5, <1>6 DEF Covered

\* A position before a covered one is covered.
LEMMA CoveredBefore ==
  ASSUME NEW x \in Int, NEW y \in Int, x <= y, Covered(y), wal \in Seq(Record)
  PROVE  Covered(x)
<1>1. Len(wal) \in Nat /\ DOMAIN wal \subseteq Nat
  OBVIOUS
<1> QED
  BY <1>1 DEF Covered

-----------------------------------------------------------------------------
(* The inductive invariant.                                                *)

Covers == TypeOK /\ ProgressIsCovered

LEMMA InitCovers == Init => Covers
BY InitTyped DEF Init, Covers, ProgressIsCovered

LEMMA NextCovers == Covers /\ [Next]_vars => Covers'
<1> SUFFICES ASSUME Covers, [Next]_vars
             PROVE  ProgressIsCovered'
  BY NextTyped DEF Covers
<1> USE CdcAssumption DEF Covers
<1>1. TypeOK /\ TypeOK' /\ ProgressIsCovered
  BY NextTyped
<1>2. /\ wal \in Seq(Record) /\ Len(wal) \in Nat /\ DOMAIN wal = 1 .. Len(wal)
      /\ lastLSN \in Nat /\ confirmed \in Nat /\ done \in Nat /\ cur \in Nat /\ pos \in Nat
  BY DEF TypeOK
<1>3. ASSUME NEW t \in Txns, NEW op \in Ops, Write(t, op)
      PROVE  ProgressIsCovered'
  <2>1. PICK e \in Record : wal' = Append(wal, e) /\ e.txn = t /\ e.op = op
    BY <1>3, WriteAppends
  <2>2. /\ \A i \in DOMAIN wal : wal'[i] = wal[i]
        /\ wal'[Len(wal) + 1] = e
        /\ DOMAIN wal' = 1 .. Len(wal) + 1
    BY <1>2, <2>1, AppendFacts
  <2>3. UNCHANGED <<slot, session, mode, lastLSN, handled, seen>>
    BY <1>3 DEF Write
  <2>4. \A x \in Nat : Covered(x) => Covered(x)'
    BY <1>3, CoveredThroughWrite
  <2>5. /\ (born > 0 => Covered(confirmed))'
        /\ (lastLSN > 0 => born > 0 /\ Covered(lastLSN))'
        /\ (mode = "up" => Covered(done + 1))'
    BY <1>2, <2>3, <2>4 DEF ProgressIsCovered, slot, session
  <2>6. ASSUME NEW i \in DOMAIN wal', NEW c \in DOMAIN wal', IsCommit(c)', wal'[i].txn = wal'[c].txn
        PROVE  i <= c
    <3>1. CASE c = Len(wal) + 1
      BY <1>2, <2>2, <3>1
    <3>2. CASE c \in DOMAIN wal
      <4>1. IsCommit(c)
        BY <2>2, <2>6, <3>2 DEF IsCommit
      <4>2. wal[c].txn # t
        BY <1>3, <4>1, <3>2 DEF Write, Open
      <4>3. i \in DOMAIN wal
        BY <1>2, <2>1, <2>2, <2>6, <3>2, <4>2
      <4> QED
        BY <2>2, <2>6, <3>2, <4>1, <4>3 DEF ProgressIsCovered
    <3> QED
      BY <1>2, <2>2, <3>1, <3>2
  <2>7. (cur # 0 => /\ mode = "up" /\ IsCommit(cur) /\ Covered(cur)
                    /\ \A i \in DOMAIN wal : ChangeOf(i, cur) /\ i <= pos => i \in handled)'
    <3> SUFFICES ASSUME cur # 0
                 PROVE  (/\ mode = "up" /\ IsCommit(cur) /\ Covered(cur)
                         /\ \A i \in DOMAIN wal :
                              ChangeOf(i, cur) /\ i <= pos => i \in handled)'
      BY <2>3 DEF session
    <3>1. mode = "up" /\ IsCommit(cur) /\ Covered(cur)
      BY DEF ProgressIsCovered
    <3>2. IsCommit(cur)' /\ Covered(cur)' /\ cur' = cur /\ cur \in DOMAIN wal
      BY <1>2, <2>2, <2>3, <2>4, <3>1 DEF session, IsCommit, Covered
    <3>3. ASSUME NEW i \in DOMAIN wal', ChangeOf(i, cur)', i <= pos
          PROVE  i \in handled
      <4>1. wal[cur].txn # t
        BY <1>3, <3>1, <3>2 DEF Write, Open
      <4>2. i \in DOMAIN wal
        BY <1>2, <2>1, <2>2, <3>2, <3>3, <4>1 DEF ChangeOf
      <4> QED
        BY <2>2, <3>1, <3>2, <3>3, <4>2 DEF ProgressIsCovered, ChangeOf
    <3> QED
      BY <2>3, <3>1, <3>2, <3>3 DEF session
  <2> QED
    BY <2>5, <2>6, <2>7 DEF ProgressIsCovered
<1>4. CASE Start
  <2>1. UNCHANGED <<wal, session, handled, seen>> /\ lastLSN' = 0 /\ mode' # "up" /\ mode = "down"
    BY <1>4 DEF Start
  <2>2. CASE UNCHANGED slot
    BY <1>2, <2>1, <2>2 DEF ProgressIsCovered, Covered, ChangeOf, IsCommit, Overshot, slot, session
  <2>3. CASE born' = Len(wal) + 1 /\ confirmed' = Len(wal) + 1
    BY <1>2, <2>1, <2>3 DEF ProgressIsCovered, Covered, ChangeOf, IsCommit, session
  <2> QED
    BY <1>4, <2>2, <2>3 DEF Start, EnsureSlot
<1>5. CASE Connect
  <2>1. born > 0 /\ confirmed > 0 /\ done' + 1 = confirmed /\ cur' = 0
    BY <1>1, <1>2, <1>5 DEF Connect, TypeOK
  <2>2. Covered(confirmed)' /\ (lastLSN > 0 => Covered(lastLSN)')
    BY <1>5, <2>1 DEF Connect, ProgressIsCovered, Covered, ChangeOf, IsCommit, Overshot, slot
  <2>3. Covered(done + 1)'
    BY <1>5, <2>1, <2>2 DEF Connect, slot
  <2> QED
    BY <1>5, <2>1, <2>2, <2>3 DEF Connect, ProgressIsCovered, IsCommit, slot
<1>6. CASE ReceiveBegin
  <2>1. PICK c \in DOMAIN wal, i \in DOMAIN wal :
          /\ NextCommit(c) /\ cur' = c /\ wal[i].txn = wal[c].txn /\ Progress(i, Bracket)
    BY <1>6 DEF ReceiveBegin
  <2>2. /\ UNCHANGED <<wal, slot, done, mode, handled>> /\ pos' = 0 /\ mode = "up"
        /\ seen \subseteq seen'
    BY <1>6, <2>1 DEF ReceiveBegin, Progress
  <2>3. Covered(c)
    <3>1. Covered(done + 1) /\ c > done /\ \A d \in done + 1 .. c - 1 : ~IsCommit(d)
      BY <2>1, <2>2 DEF ProgressIsCovered, NextCommit
    <3>2. ASSUME NEW j \in DOMAIN wal, NEW d \in DOMAIN wal,
                 ChangeOf(j, d), born <= j, d < c
          PROVE  j \in handled \/ Overshot(d)
      <4>1. d < done + 1
        BY <1>2, <3>1, <3>2 DEF ChangeOf
      <4> QED
        BY <3>1, <3>2, <4>1 DEF Covered
    <3> QED
      BY <1>2, <3>2 DEF Covered
  <2>4. i <= c /\ IsCommit(c)
    BY <2>1 DEF NextCommit, ProgressIsCovered
  <2>5. Covered(i)
    BY <1>2, <2>3, <2>4, CoveredBefore
  <2>6. Covered(i + Bracket)'
    BY <1>2, <2>1, <2>2, <2>5, ProgressCovers DEF slot
  <2>7. Covered(lastLSN)' /\ born' > 0
    BY <1>1, <2>1, <2>2, <2>6 DEF Progress, TypeOK, slot
  <2>8. Covered(confirmed)' /\ Covered(done + 1)' /\ Covered(cur)'
    <3>1. \A x : Covered(x) => Covered(x)'
      BY <2>2, CoveredStays DEF slot
    <3> QED
      BY <1>1, <2>1, <2>2, <2>3, <3>1 DEF ProgressIsCovered, TypeOK, slot
  <2>9. \A j \in DOMAIN wal' : ~(j <= pos')
    BY <1>2, <2>2
  <2> QED
    BY <2>1, <2>2, <2>4, <2>7, <2>8, <2>9 DEF ProgressIsCovered, IsCommit, slot
<1>7. CASE ReceiveChange
  <2>1. PICK i \in DOMAIN wal :
          NextChange(i) /\ handled' = handled \cup {i} /\ pos' = i /\ Progress(i, wal[i].reach)
    BY <1>7 DEF ReceiveChange
  <2>2. /\ UNCHANGED <<wal, slot, done, cur, mode>> /\ mode = "up" /\ cur # 0
        /\ seen \subseteq seen'
    BY <1>7, <2>1 DEF ReceiveChange, Progress
  <2>3. \A x : Covered(x) => Covered(x)'
    BY <2>1, <2>2, CoveredStays DEF slot
  <2>4. i <= cur /\ IsCommit(cur) /\ Covered(cur) /\ cur \in DOMAIN wal
    BY <2>1, <2>2 DEF ProgressIsCovered, NextChange, ChangeOf, IsCommit
  <2>5. Covered(i)
    BY <1>2, <2>4, CoveredBefore
  <2>6. wal[i].reach \in Nat
    <3>1. wal[i] \in Record
      BY <1>2
    <3> QED
      BY <3>1 DEF Record, CdcAssumption
  <2>7. Covered(i + wal[i].reach)'
    BY <1>2, <2>1, <2>2, <2>5, <2>6, ProgressCovers DEF slot
  <2>8. Covered(lastLSN)' /\ born' > 0
    BY <1>1, <2>1, <2>2, <2>7 DEF Progress, TypeOK, slot
  <2>9. ASSUME NEW j \in DOMAIN wal', ChangeOf(j, cur)', j <= pos'
        PROVE  j \in handled'
    <3>1. ChangeOf(j, cur) /\ j \in DOMAIN wal
      BY <2>2, <2>9 DEF ChangeOf, IsCommit
    <3>2. j <= pos \/ j = i
      BY <1>2, <2>1, <2>9, <3>1 DEF NextChange
    <3> QED
      BY <2>1, <2>2, <3>1, <3>2 DEF ProgressIsCovered
  <2>10. Covered(confirmed)' /\ Covered(done + 1)' /\ Covered(cur)'
    BY <1>1, <2>2, <2>3, <2>4 DEF ProgressIsCovered, TypeOK, slot
  <2> QED
    BY <2>2, <2>4, <2>8, <2>9, <2>10 DEF ProgressIsCovered, IsCommit, slot
<1>8. CASE ReceiveCommit
  <2>1. /\ UNCHANGED <<wal, slot, mode, handled>> /\ mode = "up" /\ cur # 0
        /\ done' = cur /\ cur' = 0 /\ seen \subseteq seen' /\ Progress(cur + 1, Bracket)
        /\ \A i \in DOMAIN wal : ChangeOf(i, cur) => i <= pos
    BY <1>8 DEF ReceiveCommit, Progress
  <2>2. IsCommit(cur) /\ Covered(cur) /\ cur \in DOMAIN wal
    BY <2>1 DEF ProgressIsCovered, IsCommit
  <2>3. ASSUME NEW i \in DOMAIN wal, ChangeOf(i, cur)
        PROVE  i \in handled
    BY <2>1, <2>3 DEF ProgressIsCovered
  <2>4. Covered(cur + 1)
    <3>1. ASSUME NEW i \in DOMAIN wal, NEW c \in DOMAIN wal,
                 ChangeOf(i, c), born <= i, c < cur + 1
          PROVE  i \in handled \/ Overshot(c)
      BY <1>2, <2>2, <2>3, <3>1 DEF Covered
    <3> QED
      BY <1>2, <2>2, <3>1 DEF Covered
  <2>5. PICK start \in Nat : start = cur + 1
    BY <1>2
  <2>6. Covered(start + Bracket)'
    BY <1>2, <2>1, <2>4, <2>5, ProgressCovers DEF slot, CdcAssumption
  <2>7. lastLSN' = start + Bracket /\ done' + 1 = start
    BY <2>1, <2>5 DEF Progress
  <2>8. \A x : Covered(x) => Covered(x)'
    BY <2>1, CoveredStays DEF slot
  <2>9. Covered(confirmed)' /\ born' > 0
    BY <1>1, <2>1, <2>8 DEF ProgressIsCovered, TypeOK, slot
  <2>10. Covered(start)'
    BY <2>4, <2>5, <2>8
  <2>11. Covered(lastLSN)' /\ Covered(done + 1)'
    BY <2>6, <2>7, <2>10
  <2> QED
    BY <2>1, <2>9, <2>11 DEF ProgressIsCovered, IsCommit, slot
<1>9. CASE SendStandby
  <2>1. UNCHANGED <<wal, born, session, mode, lastLSN, handled, seen>> /\ confirmed' \in {lastLSN, confirmed}
        /\ lastLSN > 0
    BY <1>9 DEF SendStandby, Ack
  <2>2. \A x : Covered(x) => Covered(x)'
    BY <2>1, CoveredStays
  <2>3. Covered(confirmed)'
    BY <2>1, <2>2 DEF ProgressIsCovered
  <2> QED
    BY <2>1, <2>2, <2>3 DEF ProgressIsCovered, ChangeOf, IsCommit, session
<1>10. CASE SinkFails \/ Disconnect \/ Stop
  <2>1. UNCHANGED <<wal, slot, lastLSN, handled, seen>> /\ cur' = 0 /\ mode' # "up"
    BY <1>10 DEF SinkFails, Disconnect, Stop, EndSession
  <2> QED
    BY <2>1 DEF ProgressIsCovered, Covered, ChangeOf, IsCommit, Overshot, slot
<1>11. CASE UNCHANGED vars
  BY <1>11 DEF vars, ProgressIsCovered, Covered, ChangeOf, IsCommit, Overshot, slot, session
<1> QED
  BY <1>3, <1>4, <1>5, <1>6, <1>7, <1>8, <1>9, <1>10, <1>11 DEF Next, Receive

\* Every position the slot or the consumer keeps is covered.
THEOREM ProgressIsCoveredHolds == Spec => []ProgressIsCovered
<1>1. Spec => []Covers
  BY InitCovers, NextCovers, PTL DEF Spec
<1> QED
  BY <1>1, PTL DEF Covers

LEMMA CoversNoLoss == Covers => LossIsOvershoot
<1> SUFFICES ASSUME Covers, mode = "up", NEW i \in DOMAIN wal, NEW c \in DOMAIN wal, Skipped(i, c)
             PROVE  Overshot(c)
  BY DEF LossIsOvershoot
<1>1. Covered(done + 1) /\ c < done + 1
  BY DEF Covers, ProgressIsCovered, Skipped, TypeOK
<1> QED
  BY <1>1 DEF Covered, Skipped

\* A change that a session will not send and the sink does not have was overshot
\* by the length of a message.
THEOREM LossIsOvershootHolds == Spec => []LossIsOvershoot
<1>1. Spec => []Covers
  BY InitCovers, NextCovers, PTL DEF Spec
<1> QED
  BY <1>1, CoversNoLoss, PTL
=============================================================================
