--------------------------------- MODULE Cdc ---------------------------------
(***************************************************************************)
(* The change-data-capture consumer: a wal2json replication slot, the      *)
(* sessions that stream it to a sink, the standby updates that advance it, *)
(* reconnects, sink failures and restarts of the process.                  *)
(*                                                                         *)
(* Abstractions.                                                           *)
(*  - An LSN is the index of a WAL record.  A message is as long as the    *)
(*    number of record boundaries its JSON text spans: Reach holds the     *)
(*    lengths of changes, Bracket is that of begin and commit messages.    *)
(*    The code adds the length to a WAL position.                          *)
(*  - The walsender and its socket are one step with the receipt: a        *)
(*    message still in flight when a session ends was not received.        *)
(*  - The backoff is a delay only.                                         *)
(***************************************************************************)
EXTENDS Integers, Sequences

CONSTANTS
  Txns,      \* transactions that write while the model runs
  Reach,     \* lengths of change messages, in record boundaries
  Bracket,   \* length of begin and commit messages
  MaxWal, MaxFaults, MaxStops

ASSUME CdcAssumption ==
  /\ Reach \subseteq Nat /\ Bracket \in Nat
  /\ MaxWal \in Nat /\ MaxFaults \in Nat /\ MaxStops \in Nat

VARIABLES
  \* Postgres
  wal,         \* sequence of records
  born,        \* LSN at which the slot was created, 0 while there is none
  confirmed,   \* confirmed_flush_lsn of the slot
  \* the session: what the walsender has sent and the consumer handled
  done,        \* commit LSN of the last transaction sent whole or skipped
  cur,         \* commit LSN of the transaction being sent, 0 between two
  pos,         \* LSN of its last record sent
  \* the consumer
  mode,        \* down, disabled, between sessions (idle) or streaming
  lastLSN,     \* Consumer.lastLSN
  handled,     \* LSNs of the changes the sink accepted
  seen,        \* history: start and length of every message handled
  faults, stops

session == <<done, cur, pos>>
slot == <<born, confirmed>>
vars == <<wal, slot, session, mode, lastLSN, handled, seen, faults, stops>>

\* A change to a streamed table, one to another table, a commit.  The length is
\* that of the record's own message.
Ops == {"change", "other", "commit"}
Record == [txn : Txns, op : Ops, reach : Reach \cup {Bracket}]

TypeOK ==
  /\ wal \in Seq(Record)
  /\ born \in Nat /\ confirmed \in Nat /\ (born > 0 => confirmed > 0)
  /\ done \in Nat /\ cur \in 0 .. Len(wal) /\ pos \in Nat
  /\ mode \in {"down", "off", "idle", "up"}
  /\ mode \in {"idle", "up"} => born > 0
  /\ lastLSN \in Nat
  /\ handled \subseteq DOMAIN wal
  /\ seen \subseteq [start : Nat, reach : Reach \cup {Bracket}]
  /\ faults \in Nat /\ stops \in Nat

Init ==
  /\ wal = <<>> /\ born = 0 /\ confirmed = 0
  /\ done = 0 /\ cur = 0 /\ pos = 0
  /\ mode = "down" /\ lastLSN = 0 /\ handled = {} /\ seen = {}
  /\ faults = 0 /\ stops = 0

-----------------------------------------------------------------------------
(* The database.                                                           *)

Wrote(t) == \E i \in DOMAIN wal : wal[i].txn = t
IsCommit(c) == c \in DOMAIN wal /\ wal[c].op = "commit"
Open(t) == \A c \in DOMAIN wal : IsCommit(c) => wal[c].txn # t

\* The record i is a change of the transaction that commits at c.
ChangeOf(i, c) ==
  i \in DOMAIN wal /\ wal[i].op = "change" /\ IsCommit(c) /\ wal[i].txn = wal[c].txn

Lengths(op) == IF op = "change" THEN Reach ELSE {Bracket}

Write(t, op) ==
  /\ Len(wal) < MaxWal
  /\ Open(t)
  /\ op = "commit" => Wrote(t)
  /\ \E n \in Lengths(op) : wal' = Append(wal, [txn |-> t, op |-> op, reach |-> n])
  /\ UNCHANGED <<slot, session, mode, lastLSN, handled, seen, faults, stops>>

-----------------------------------------------------------------------------
(* Start-up: EnsureSlot.                                                   *)

\* Creating a slot waits for the transactions in progress to end.
EnsureSlot ==
  \/ born > 0 /\ UNCHANGED slot
  \/ /\ born = 0
     /\ \A t \in Txns : Wrote(t) => ~Open(t)
     /\ born' = Len(wal) + 1 /\ confirmed' = Len(wal) + 1

\* Without a slot the consumer is not started at all.
Start ==
  /\ mode = "down"
  /\ lastLSN' = 0
  /\ \/ EnsureSlot /\ mode' = "idle" /\ UNCHANGED faults
     \/ faults < MaxFaults /\ faults' = faults + 1 /\ mode' = "off" /\ UNCHANGED slot
  /\ UNCHANGED <<wal, session, handled, seen, stops>>

-----------------------------------------------------------------------------
(* A session.                                                              *)

\* Streaming starts at LSN 0, that is, where the slot's position says:
\* transactions whose commit record starts before it are not sent again.
Connect ==
  /\ mode = "idle"
  /\ mode' = "up"
  /\ done' = confirmed - 1 /\ cur' = 0 /\ pos' = 0
  /\ UNCHANGED <<wal, slot, lastLSN, handled, seen, faults, stops>>

EndSession ==
  /\ mode' = "idle"
  /\ done' = 0 /\ cur' = 0 /\ pos' = 0

\* The error that ends a session: of the connection, or of the sink.
Faulty == faults < MaxFaults /\ faults' = faults + 1

\* The transaction at hand has i as its next change to send.
NextChange(i) ==
  /\ ChangeOf(i, cur) /\ i > pos
  /\ \A j \in pos + 1 .. i - 1 : ~ChangeOf(j, cur)

\* The message is dispatched, then its start plus its length is the progress.
Progress(start, n) ==
  /\ lastLSN' = start + n
  /\ seen' = seen \cup {[start |-> start, reach |-> n]}

\* Transactions are sent in the order of their commits.
NextCommit(c) ==
  /\ IsCommit(c) /\ c > done
  /\ \A d \in done + 1 .. c - 1 : ~IsCommit(d)

\* A begin message carries the LSN of the transaction's first record.
ReceiveBegin ==
  /\ mode = "up" /\ cur = 0
  /\ \E c \in DOMAIN wal, i \in DOMAIN wal :
       /\ NextCommit(c)
       /\ wal[i].txn = wal[c].txn
       /\ \A j \in 1 .. i - 1 : wal[j].txn # wal[c].txn
       /\ cur' = c
       /\ Progress(i, Bracket)
  /\ pos' = 0
  /\ UNCHANGED <<wal, slot, done, mode, handled, faults, stops>>

ReceiveChange ==
  /\ mode = "up" /\ cur # 0
  /\ \E i \in DOMAIN wal :
       /\ NextChange(i)
       /\ handled' = handled \cup {i}
       /\ pos' = i
       /\ Progress(i, wal[i].reach)
  /\ UNCHANGED <<wal, slot, done, cur, mode, faults, stops>>

\* Mutant: the error of the sink is logged only.
SinkErrorIgnored ==
  /\ mode = "up" /\ cur # 0
  /\ \E i \in DOMAIN wal : NextChange(i) /\ pos' = i /\ Progress(i, wal[i].reach)
  /\ Faulty
  /\ UNCHANGED <<wal, slot, done, cur, mode, handled, stops>>

\* The sink refuses the change: the session ends and progress stays.
SinkFails ==
  /\ mode = "up" /\ cur # 0
  /\ \E i \in DOMAIN wal : NextChange(i)
  /\ Faulty /\ EndSession
  /\ UNCHANGED <<wal, slot, lastLSN, handled, seen, stops>>

\* A commit message carries the LSN of the end of the commit record.
ReceiveCommit ==
  /\ mode = "up" /\ cur # 0
  /\ \A i \in DOMAIN wal : ChangeOf(i, cur) => i <= pos
  /\ Progress(cur + 1, Bracket)
  /\ done' = cur /\ cur' = 0 /\ pos' = 0
  /\ UNCHANGED <<wal, slot, mode, handled, faults, stops>>

\* Mutant: the answer to a keepalive acknowledges all the WAL there is.
AckServerEnd == Len(wal) + 1

\* Mutant: progress is never recorded.
AckNothing == 0

Ack == lastLSN

\* The timer, or a keepalive that asks for a reply.  Postgres ignores position
\* 0; some minor versions let the slot move backwards, the others keep it.
SendStandby ==
  /\ mode = "up" /\ lastLSN > 0
  /\ \/ confirmed' = Ack
     \/ confirmed > Ack /\ UNCHANGED confirmed
  /\ UNCHANGED <<wal, born, session, mode, lastLSN, handled, seen, faults, stops>>

Disconnect ==
  /\ mode = "up"
  /\ Faulty /\ EndSession
  /\ UNCHANGED <<wal, slot, lastLSN, handled, seen, stops>>

\* The context is cancelled, or the process dies.
Stop ==
  /\ mode # "down" /\ stops < MaxStops
  /\ stops' = stops + 1
  /\ mode' = "down" /\ done' = 0 /\ cur' = 0 /\ pos' = 0
  /\ UNCHANGED <<wal, slot, lastLSN, handled, seen, faults>>

-----------------------------------------------------------------------------
Receive == ReceiveBegin \/ ReceiveChange \/ ReceiveCommit

Next ==
  \/ \E t \in Txns, op \in Ops : Write(t, op)
  \/ Start \/ Connect \/ Receive \/ SinkFails \/ SendStandby \/ Disconnect \/ Stop

Spec == Init /\ [][Next]_vars

\* Run reconnects without end, a session reads whatever is sent, and an update
\* goes out every standbyInterval.  Nothing obliges the process to be restarted.
FairSpec ==
  Spec /\ WF_vars(Connect) /\ WF_vars(Receive) /\ WF_vars(mode = "up" /\ SendStandby)

-----------------------------------------------------------------------------
(* Properties.                                                             *)

\* A commit record that starts within the length of a message handled.
Overshot(c) == \E m \in seen : m.start <= c /\ c < m.start + m.reach

\* Changes the sink may be without although the session will not send them.
Skipped(i, c) == ChangeOf(i, c) /\ born <= i /\ c <= done /\ i \notin handled

\* The consumer misses no change but those of transactions whose commit record
\* starts within the text length of a message it handled: that length, added
\* to a WAL position in handleCopyData, is the only way to lose one.
LossIsOvershoot ==
  mode = "up" => \A i, c \in DOMAIN wal : Skipped(i, c) => Overshot(c)

\* A committed change reaches the sink over any number of reconnects, unless
\* the process is down, CDC is disabled or the change was overshot.
CommittedIsHandled ==
  \A i, c \in 1 .. MaxWal :
    (born > 0 /\ born <= i /\ ChangeOf(i, c)) ~>
      (i \in handled \/ Overshot(c) \/ mode \in {"down", "off"})

\* The slot is consumed: at some time its position passes every commit, so that
\* Postgres can recycle the WAL before it, unless no consumer runs.
SlotAdvances ==
  \A c \in 1 .. MaxWal :
    <>(born > 0 /\ IsCommit(c)) => <>(confirmed > c) \/ []<>(mode \in {"down", "off"})

\* What follows from progress x: of the changes that commit before it, the sink
\* has all but the overshot ones, those not yet committed included.
Covered(x) ==
  /\ \A i, c \in DOMAIN wal :
       ChangeOf(i, c) /\ born <= i /\ c < x => i \in handled \/ Overshot(c)
  /\ \A c \in Len(wal) + 1 .. x - 1 : Overshot(c)

\* Every position the slot and the consumer keep is covered, transactions are
\* closed by their commit, and a session leaves nothing out behind pos.
ProgressIsCovered ==
  /\ born > 0 => Covered(confirmed)
  /\ lastLSN > 0 => born > 0 /\ Covered(lastLSN)
  /\ \A i, c \in DOMAIN wal : IsCommit(c) /\ wal[i].txn = wal[c].txn => i <= c
  /\ mode = "up" => Covered(done + 1)
  /\ cur # 0 =>
       /\ mode = "up" /\ IsCommit(cur)
       /\ Covered(cur)
       /\ \A i \in DOMAIN wal : ChangeOf(i, cur) /\ i <= pos => i \in handled

\* replication.md: disconnecting and reconnecting does not lose events.
NothingSkipped ==
  mode = "up" => \A i, c \in DOMAIN wal : ~Skipped(i, c)
=============================================================================
