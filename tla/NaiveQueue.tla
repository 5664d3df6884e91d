----------------------------- MODULE NaiveQueue -----------------------------
(***************************************************************************)
(* The hand-rolled queue over one table: Enqueue inserts a row, Dequeue    *)
(* locks one with FOR UPDATE SKIP LOCKED, runs the handler, deletes the    *)
(* row and commits, in one transaction whose lock is the claim.            *)
(*                                                                         *)
(* The claim is Postgres', the handler runs in the worker: when the        *)
(* session is lost the row is free again while the handler runs on.        *)
(*                                                                         *)
(* Abstractions.                                                           *)
(*  - A payload is left out, a job is its id.                              *)
(*  - The claim reads row by row under the statement's snapshot, as        *)
(*    LockRows does; a row that another session has locked or deleted      *)
(*    since is stepped over.                                               *)
(*  - What Dequeue returns is left out: the caller may call again whatever *)
(*    it was.  A commit that Postgres made and the worker did not hear of  *)
(*    is a Commit.                                                         *)
(*                                                                         *)
(* Bounds: MaxId ids, MaxFaults failed statements and lost sessions.       *)
(***************************************************************************)
EXTENDS Integers

CONSTANTS Workers, MaxId, MaxFaults, NoJob

Jobs == 1 .. MaxId

ASSUME NaiveQueueAssumption ==
  MaxId \in Nat /\ MaxFaults \in Nat /\ NoJob \notin Int

VARIABLES
  nextval,     \* of naive_jobs_id_seq
  inserting,   \* ids drawn by an Enqueue that has not committed
  naive_jobs,  \* ids in the table, as committed
  finished,    \* ids whose deletion was committed
  pc,          \* where a worker's Dequeue is; "idle" outside
  job,         \* the job it has scanned
  cursor,      \* rows its SELECT has not tried yet
  session,     \* "open", or "lost" under a Dequeue
  handled,     \* how often a handler ended without an error, by id
  faults

table == <<nextval, inserting, naive_jobs, finished>>
vars == <<table, pc, job, cursor, session, handled, faults>>

Init ==
  /\ nextval = 1 /\ inserting = {} /\ naive_jobs = {} /\ finished = {}
  /\ pc = [w \in Workers |-> "idle"] /\ job = [w \in Workers |-> NoJob]
  /\ cursor = [w \in Workers |-> {}] /\ session = [w \in Workers |-> "open"]
  /\ handled = [j \in Jobs |-> 0] /\ faults = 0

Claiming == {"handle", "delete", "commit"}

\* The session of w has the row of j locked.
Holds(w, j) == session[w] = "open" /\ pc[w] \in Claiming /\ job[w] = j

-----------------------------------------------------------------------------
(* Enqueue: ids are drawn in order, rows appear in the order of commits.   *)

Draw ==
  /\ nextval <= MaxId
  /\ nextval' = nextval + 1 /\ inserting' = inserting \cup {nextval}
  /\ UNCHANGED <<naive_jobs, finished, pc, job, cursor, session, handled, faults>>

Inserted(j) ==
  /\ j \in inserting /\ inserting' = inserting \ {j}
  /\ naive_jobs' = naive_jobs \cup {j}
  /\ UNCHANGED <<nextval, finished, pc, job, cursor, session, handled, faults>>

InsertFails(j) ==
  /\ j \in inserting /\ inserting' = inserting \ {j}
  /\ UNCHANGED <<nextval, naive_jobs, finished, pc, job, cursor, session, handled, faults>>

-----------------------------------------------------------------------------
(* Dequeue.                                                                *)

Begin(w) ==
  /\ pc[w] = "idle" /\ pc' = [pc EXCEPT ![w] = "select"]
  /\ session' = [session EXCEPT ![w] = "open"]
  /\ UNCHANGED <<table, job, cursor, handled, faults>>

\* The SELECT takes its snapshot.
Select(w) ==
  /\ pc[w] = "select" /\ session[w] = "open"
  /\ pc' = [pc EXCEPT ![w] = "scan"] /\ cursor' = [cursor EXCEPT ![w] = naive_jobs]
  /\ UNCHANGED <<table, job, session, handled, faults>>

\* ORDER BY id.
IsNext(w, j) ==
  /\ pc[w] = "scan" /\ session[w] = "open"
  /\ j \in cursor[w] /\ \A i \in cursor[w] : j <= i

\* Mutant: a plain SELECT, which sees no locks.
LockableUnlocked(j) == j \in naive_jobs

\* Mutant: a row deleted since the snapshot is taken as it was.
LockableAsSeen(j) == \A v \in Workers : ~Holds(v, j)

Lockable(j) == j \in naive_jobs /\ \A v \in Workers : ~Holds(v, j)

StepOver(w) ==
  /\ \E j \in cursor[w] :
       IsNext(w, j) /\ ~Lockable(j) /\ cursor' = [cursor EXCEPT ![w] = @ \ {j}]
  /\ UNCHANGED <<table, pc, job, session, handled, faults>>

Lock(w) ==
  /\ \E j \in cursor[w] :
       IsNext(w, j) /\ Lockable(j) /\ job' = [job EXCEPT ![w] = j]
  /\ pc' = [pc EXCEPT ![w] = "handle"] /\ cursor' = [cursor EXCEPT ![w] = {}]
  /\ UNCHANGED <<table, session, handled, faults>>

\* Dequeue returns, and the deferred rollback ends the transaction.
Return(w) ==
  /\ pc' = [pc EXCEPT ![w] = "idle"] /\ job' = [job EXCEPT ![w] = NoJob]
  /\ cursor' = [cursor EXCEPT ![w] = {}]

NoRows(w) ==
  /\ pc[w] = "scan" /\ session[w] = "open" /\ cursor[w] = {}
  /\ Return(w)
  /\ UNCHANGED <<table, session, handled, faults>>

HandleSucceeds(w) ==
  /\ pc[w] = "handle" /\ pc' = [pc EXCEPT ![w] = "delete"]
  /\ handled' = [handled EXCEPT ![job[w]] = @ + 1]
  /\ UNCHANGED <<table, job, cursor, session, faults>>

HandleFails(w) ==
  /\ pc[w] = "handle" /\ Return(w)
  /\ UNCHANGED <<table, session, handled, faults>>

\* Mutant: the row is deleted outside the transaction.
DeleteAtOnce(w) ==
  /\ pc[w] = "delete" /\ session[w] = "open"
  /\ pc' = [pc EXCEPT ![w] = "commit"]
  /\ naive_jobs' = naive_jobs \ {job[w]}
  /\ UNCHANGED <<nextval, inserting, finished, job, cursor, session, handled, faults>>

Delete(w) ==
  /\ pc[w] = "delete" /\ session[w] = "open"
  /\ pc' = [pc EXCEPT ![w] = "commit"]
  /\ UNCHANGED <<table, job, cursor, session, handled, faults>>

Commit(w) ==
  /\ pc[w] = "commit" /\ session[w] = "open"
  /\ naive_jobs' = naive_jobs \ {job[w]} /\ finished' = finished \cup {job[w]}
  /\ Return(w)
  /\ UNCHANGED <<nextval, inserting, session, handled, faults>>

\* A statement or the commit fails, as each does on a lost session.
StatementFails(w) ==
  /\ pc[w] \in {"select", "scan", "delete", "commit"}
  /\ \/ session[w] = "lost" /\ faults' = faults
     \/ session[w] = "open" /\ faults < MaxFaults /\ faults' = faults + 1
  /\ Return(w)
  /\ UNCHANGED <<table, session, handled>>

\* Postgres ends the session, and with it the lock.
SessionLost(w) ==
  /\ pc[w] # "idle" /\ session[w] = "open"
  /\ faults < MaxFaults /\ faults' = faults + 1
  /\ session' = [session EXCEPT ![w] = "lost"]
  /\ UNCHANGED <<table, pc, job, cursor, handled>>

Dequeue(w) ==
  \/ Begin(w) \/ Select(w) \/ StepOver(w) \/ Lock(w) \/ NoRows(w)
  \/ HandleSucceeds(w) \/ HandleFails(w) \/ Delete(w) \/ Commit(w)
  \/ StatementFails(w)

Next ==
  \/ Draw
  \/ \E j \in Jobs : Inserted(j) \/ InsertFails(j)
  \/ \E w \in Workers : Dequeue(w) \/ SessionLost(w)

Spec == Init /\ [][Next]_vars

-----------------------------------------------------------------------------
(* Properties.                                                             *)

TypeOK ==
  /\ nextval \in Nat \ {0} /\ faults \in Nat
  /\ inserting \subseteq Jobs /\ naive_jobs \subseteq Jobs /\ finished \subseteq Jobs
  /\ pc \in [Workers -> {"idle", "select", "scan"} \cup Claiming]
  /\ job \in [Workers -> Jobs \cup {NoJob}]
  /\ cursor \in [Workers -> SUBSET Jobs]
  /\ session \in [Workers -> {"open", "lost"}]
  /\ handled \in [Jobs -> Nat]

\* "No double-processing": two handlers are never at the same job, unless one of
\* the two has lost the session that held its lock.
HandlersExclude ==
  \A v, w \in Workers :
    v # w /\ pc[v] = "handle" /\ pc[w] = "handle" /\ job[v] = job[w] =>
      session[v] = "lost" \/ session[w] = "lost"

\* A job is handled again only because a statement after the handler failed, a
\* commit among them, or a session was lost: so many times more than once at most.
HandledOnceMore == \A j \in Jobs : handled[j] <= 1 + faults

\* The queue implements a job queue whose claims are the row locks.
Queue == INSTANCE JobQueue WITH
  status <- [j \in Jobs |-> IF j \in naive_jobs THEN "waiting"
                            ELSE IF j \in finished THEN "finished" ELSE "new"],
  holders <- [j \in Jobs |-> {w \in Workers : Holds(w, j)}],
  handled <- {j \in Jobs : handled[j] > 0}
QueueSpec == Queue!Spec

\* Ids are drawn once, and a row is in the table before it is finished.
Known == naive_jobs \cup finished
IdsOnce ==
  /\ \A j \in inserting \cup Known : j < nextval
  /\ inserting \cap Known = {} /\ naive_jobs \cap finished = {}

\* A worker past the claim has a job that was enqueued, and past the handler one
\* that was handled; only rows that are there are locked, by one session each.
ClaimsHold ==
  /\ \A w \in Workers :
       /\ cursor[w] \subseteq Known
       /\ pc[w] \in Claiming => job[w] \in Known
       /\ pc[w] \in {"delete", "commit"} => handled[job[w]] > 0
  /\ \A w \in Workers, j \in Jobs : Holds(w, j) => j \in naive_jobs
  /\ \A v, w \in Workers, j \in Jobs : Holds(v, j) /\ Holds(w, j) => v = w

\* The strengthening under which the refinement and HandlersExclude are inductive.
Claims == TypeOK /\ IdsOnce /\ ClaimsHold
=============================================================================
