---------------------------- MODULE NaiveProofs ----------------------------
(***************************************************************************)
(* Proofs about NaiveQueue for any number of workers, jobs and faults:     *)
(* Claims is inductive, no two handlers with a live session are at the     *)
(* same job, the queue implements JobQueue, and a job is handled again     *)
(* only for a fault.                                                       *)
(***************************************************************************)
EXTENDS NaiveQueue, TLAPS, FiniteSetTheorems

USE NaiveQueueAssumption DEF Jobs

-----------------------------------------------------------------------------
(* The inductive invariant.                                                *)

LEMMA InitClaims == Init => Claims
BY DEF Init, Claims, TypeOK, IdsOnce, ClaimsHold, Known, Holds, Claiming

\* A Dequeue that returns leaves the others alone.
LEMMA Returns ==
  ASSUME TypeOK, NEW w \in Workers, Return(w)
  PROVE  /\ pc' \in [Workers -> {"idle", "select", "scan"} \cup Claiming]
         /\ job' \in [Workers -> Jobs \cup {NoJob}]
         /\ cursor' \in [Workers -> SUBSET Jobs]
         /\ pc'[w] = "idle" /\ cursor'[w] = {}
         /\ \A v \in Workers \ {w} :
              pc'[v] = pc[v] /\ job'[v] = job[v] /\ cursor'[v] = cursor[v]
<1>1. pc' \in [Workers -> {"idle", "select", "scan"} \cup Claiming] /\ pc'[w] = "idle"
  BY DEF TypeOK, Return
<1>2. job' \in [Workers -> Jobs \cup {NoJob}]
  BY DEF TypeOK, Return
<1>3. cursor' \in [Workers -> SUBSET Jobs] /\ cursor'[w] = {}
  BY DEF TypeOK, Return
<1>4. ASSUME NEW v \in Workers \ {w}
      PROVE  pc'[v] = pc[v] /\ job'[v] = job[v] /\ cursor'[v] = cursor[v]
  BY DEF TypeOK, Return
<1> QED
  BY <1>1, <1>2, <1>3, <1>4

\* Past the claim a worker has a job that was enqueued.
LEMMA ClaimedJob ==
  ASSUME Claims, NEW w \in Workers, pc[w] \in Claiming
  PROVE  job[w] \in Jobs /\ job[w] \in Known
BY DEF Claims, TypeOK, ClaimsHold, Known

LEMMA NextTypes == Claims /\ [Next]_vars => TypeOK'
<1> SUFFICES ASSUME Claims, [Next]_vars PROVE TypeOK'
  OBVIOUS
<1> USE DEF Claims, TypeOK, IdsOnce, ClaimsHold, Claiming, table
<1>1. CASE Draw
  BY <1>1 DEF Draw
<1>2. ASSUME NEW j \in Jobs, Inserted(j) \/ InsertFails(j) PROVE TypeOK'
  BY <1>2 DEF Inserted, InsertFails
<1>3. ASSUME NEW w \in Workers, Begin(w) \/ Select(w) \/ StepOver(w) PROVE TypeOK'
  <2>1. CASE Begin(w)
    BY <2>1 DEF Begin
  <2>2. CASE Select(w)
    BY <2>2 DEF Select
  <2>3. CASE StepOver(w)
    BY <2>3 DEF StepOver
  <2> QED
    BY <1>3, <2>1, <2>2, <2>3
<1>4. ASSUME NEW w \in Workers, Lock(w) PROVE TypeOK'
  BY <1>4 DEF Lock, IsNext
<1>5. ASSUME NEW w \in Workers, NoRows(w) \/ HandleFails(w) \/ StatementFails(w) PROVE TypeOK'
  <2>1. Return(w) /\ faults' \in Nat /\ UNCHANGED <<table, session, handled>>
    BY <1>5 DEF NoRows, HandleFails, StatementFails
  <2> QED
    BY <2>1, Returns
<1>6. ASSUME NEW w \in Workers, HandleSucceeds(w) PROVE TypeOK'
  <2>1. job[w] \in Jobs
    BY <1>6, ClaimedJob DEF HandleSucceeds
  <2>2. handled' \in [Jobs -> Nat]
    BY <1>6, <2>1 DEF HandleSucceeds
  <2>3. pc' \in [Workers -> {"idle", "select", "scan"} \cup Claiming]
    BY <1>6 DEF HandleSucceeds
  <2> QED
    BY <1>6, <2>2, <2>3 DEF HandleSucceeds
<1>7. ASSUME NEW w \in Workers, Delete(w) PROVE TypeOK'
  BY <1>7 DEF Delete
<1>8. ASSUME NEW w \in Workers, SessionLost(w) PROVE TypeOK'
  BY <1>8 DEF SessionLost
<1>9. ASSUME NEW w \in Workers, Commit(w) PROVE TypeOK'
  <2>1. job[w] \in Jobs
    BY <1>9, ClaimedJob DEF Commit
  <2> QED
    BY <1>9, <2>1, Returns DEF Commit
<1>10. CASE UNCHANGED vars
  BY <1>10 DEF vars
<1> QED
  BY <1>1, <1>2, <1>3, <1>4, <1>5, <1>6, <1>7, <1>8, <1>9, <1>10 DEF Next, Dequeue

LEMMA NextIdsOnce == Claims /\ [Next]_vars => IdsOnce'
<1> SUFFICES ASSUME Claims, [Next]_vars PROVE IdsOnce'
  OBVIOUS
<1> USE DEF Claims, TypeOK, IdsOnce, Known, table
<1>1. CASE Draw
  BY <1>1 DEF Draw
<1>2. ASSUME NEW j \in Jobs, Inserted(j) \/ InsertFails(j) PROVE IdsOnce'
  BY <1>2 DEF Inserted, InsertFails
<1>3. ASSUME NEW w \in Workers, Commit(w) PROVE IdsOnce'
  <2>1. job[w] \in naive_jobs
    BY <1>3 DEF Commit, ClaimsHold, Holds, Claiming
  <2> QED
    BY <1>3, <2>1 DEF Commit
<1>4. ASSUME UNCHANGED table PROVE IdsOnce'
  BY <1>4
<1> QED
  BY <1>1, <1>2, <1>3, <1>4
     DEF Next, Dequeue, Begin, Select, StepOver, Lock, NoRows, HandleSucceeds, HandleFails,
         Delete, StatementFails, SessionLost, vars

LEMMA NextClaimsHold == Claims /\ [Next]_vars => ClaimsHold'
<1> SUFFICES ASSUME Claims, [Next]_vars PROVE ClaimsHold'
  OBVIOUS
<1> USE DEF Claims, TypeOK, IdsOnce, ClaimsHold, Known, Holds, Claiming, table
<1>1. CASE Draw
  BY <1>1 DEF Draw
<1>2. ASSUME NEW j \in Jobs, Inserted(j) \/ InsertFails(j) PROVE ClaimsHold'
  BY <1>2 DEF Inserted, InsertFails
<1>3. ASSUME NEW w \in Workers, Begin(w) PROVE ClaimsHold'
  BY <1>3 DEF Begin
<1>4. ASSUME NEW w \in Workers, Select(w) PROVE ClaimsHold'
  BY <1>4 DEF Select
<1>5. ASSUME NEW w \in Workers, StepOver(w) PROVE ClaimsHold'
  BY <1>5 DEF StepOver
<1>6. ASSUME NEW w \in Workers, Lock(w) PROVE ClaimsHold'
  <2>1. PICK j \in cursor[w] : IsNext(w, j) /\ Lockable(j) /\ job' = [job EXCEPT ![w] = j]
    BY <1>6 DEF Lock
  <2> QED
    BY <1>6, <2>1 DEF Lock, Lockable
<1>7. ASSUME NEW w \in Workers, NoRows(w) \/ HandleFails(w) \/ StatementFails(w)
      PROVE  ClaimsHold'
  <2>1. Return(w) /\ UNCHANGED <<table, session, handled>>
    BY <1>7 DEF NoRows, HandleFails, StatementFails
  <2>2. \A v \in Workers, j \in Jobs : Holds(v, j)' => Holds(v, j)
    BY <2>1, Returns
  <2>3. \A v \in Workers :
          /\ cursor'[v] \subseteq cursor[v]
          /\ pc'[v] # "idle" => pc'[v] = pc[v] /\ job'[v] = job[v]
    BY <2>1, Returns
  <2> HIDE DEF Holds
  <2> QED
    BY <2>1, <2>2, <2>3
<1>8. ASSUME NEW w \in Workers, HandleSucceeds(w) PROVE ClaimsHold'
  <2>1. \A v \in Workers, j \in Jobs : Holds(v, j)' = Holds(v, j)
    BY <1>8 DEF HandleSucceeds
  <2>2. \A v \in Workers : pc'[v] \in Claiming <=> pc[v] \in Claiming
    BY <1>8 DEF HandleSucceeds
  <2>3. \A j \in Jobs : handled'[j] >= handled[j]
    BY <1>8, ClaimedJob DEF HandleSucceeds
  <2>4. handled'[job[w]] > 0
    BY <1>8, ClaimedJob DEF HandleSucceeds
  <2>5. \A v \in Workers : pc'[v] \in {"delete", "commit"} => handled'[job[v]] > 0
    BY <1>8, <2>3, <2>4, ClaimedJob, NextTypes DEF HandleSucceeds
  <2> HIDE DEF Holds, Claiming
  <2> QED
    BY <1>8, <2>1, <2>2, <2>5 DEF HandleSucceeds
<1>9. ASSUME NEW w \in Workers, Delete(w) PROVE ClaimsHold'
  BY <1>9 DEF Delete
<1>10. ASSUME NEW w \in Workers, Commit(w) PROVE ClaimsHold'
  <2>1. Holds(w, job[w]) /\ job[w] \in Jobs
    BY <1>10, ClaimedJob DEF Commit
  <2>2. \A v \in Workers, j \in Jobs : Holds(v, j)' => v # w /\ Holds(v, j)
    BY <1>10, Returns DEF Commit
  <2>3. \A v \in Workers, j \in Jobs : Holds(v, j)' => j \in naive_jobs'
    BY <1>10, <2>1, <2>2 DEF Commit
  <2>4. Known' = Known
    BY <1>10, <2>1 DEF Commit
  <2>5. \A v \in Workers :
          /\ cursor'[v] \subseteq cursor[v]
          /\ pc'[v] # "idle" => pc'[v] = pc[v] /\ job'[v] = job[v]
    BY <1>10, Returns DEF Commit
  <2> HIDE DEF Holds, Known
  <2> QED
    BY <1>10, <2>2, <2>3, <2>4, <2>5 DEF Commit
<1>11. ASSUME NEW w \in Workers, SessionLost(w) PROVE ClaimsHold'
  BY <1>11 DEF SessionLost
<1>12. CASE UNCHANGED vars
  BY <1>12 DEF vars
<1> QED
  BY <1>1, <1>2, <1>3, <1>4, <1>5, <1>6, <1>7, <1>8, <1>9, <1>10, <1>11, <1>12
     DEF Next, Dequeue

\* The invariant holds in every behaviour of the queue: claims are row locks of
\* rows that are there, one session each, whatever statements fail and sessions end.
THEOREM ClaimsAlways == Spec => []Claims
<1>1. Init => Claims
  BY InitClaims
<1>2. Claims /\ [Next]_vars => Claims'
  BY NextTypes, NextIdsOnce, NextClaimsHold DEF Claims
<1> QED
  BY <1>1, <1>2, PTL DEF Spec

\* naive.go: "no double-processing", as far as it goes: of two handlers at one job
\* at least one has lost its session.
THEOREM HandlersExcludeHolds == Spec => []HandlersExclude
<1>1. Claims => HandlersExclude
  <2> SUFFICES ASSUME Claims, NEW v \in Workers, NEW w \in Workers,
                      v # w, pc[v] = "handle", pc[w] = "handle", job[v] = job[w],
                      session[v] # "lost", session[w] # "lost"
               PROVE  FALSE
    BY DEF HandlersExclude
  <2>1. job[v] \in Jobs
    BY DEF Claims, TypeOK, IdsOnce, ClaimsHold, Known, Claiming
  <2>2. Holds(v, job[v]) /\ Holds(w, job[v])
    BY DEF Claims, TypeOK, Holds, Claiming
  <2> QED
    BY <2>1, <2>2 DEF Claims, ClaimsHold
<1> QED
  BY <1>1, ClaimsAlways, PTL

-----------------------------------------------------------------------------
(* The refinement.                                                         *)

StatusOf == [j \in Jobs |-> IF j \in naive_jobs THEN "waiting"
                            ELSE IF j \in finished THEN "finished" ELSE "new"]
HoldersOf == [j \in Jobs |-> {w \in Workers : Holds(w, j)}]
HandledOf == {j \in Jobs : handled[j] > 0}

LEMMA InitRefines == Init => Queue!Init
BY DEF Init, Queue!Init, Holds, Claiming

\* The statuses stay if the table does, the holders if the locks do.
LEMMA Unmoved ==
  /\ UNCHANGED <<naive_jobs, finished>> => StatusOf' = StatusOf
  /\ (\A v \in Workers, j \in Jobs : Holds(v, j)' = Holds(v, j)) => HoldersOf' = HoldersOf
  /\ UNCHANGED handled => HandledOf' = HandledOf
<1>1. UNCHANGED <<naive_jobs, finished>> => StatusOf' = StatusOf
  BY DEF StatusOf
<1>2. ASSUME \A v \in Workers, j \in Jobs : Holds(v, j)' = Holds(v, j)
      PROVE  HoldersOf' = HoldersOf
  BY <1>2 DEF HoldersOf
<1>3. UNCHANGED handled => HandledOf' = HandledOf
  BY DEF HandledOf
<1> QED
  BY <1>1, <1>2, <1>3

\* A step after which w may have lost its lock, and that does nothing else.
LEMMA Releases ==
  ASSUME Claims, NEW w \in Workers, UNCHANGED <<naive_jobs, finished, handled>>,
         \A j \in Jobs : ~Holds(w, j)',
         \A v \in Workers \ {w}, j \in Jobs : Holds(v, j)' = Holds(v, j)
  PROVE  \/ UNCHANGED <<StatusOf, HoldersOf, HandledOf>>
         \/ \E j \in Jobs : /\ w \in HoldersOf[j]
                           /\ HoldersOf' = [HoldersOf EXCEPT ![j] = @ \ {w}]
                           /\ UNCHANGED <<StatusOf, HandledOf>>
<1>1. UNCHANGED <<StatusOf, HandledOf>>
  BY Unmoved
<1>2. CASE \A j \in Jobs : ~Holds(w, j)
  <2>1. \A v \in Workers, j \in Jobs : Holds(v, j)' = Holds(v, j)
    BY <1>2 DEF Holds
  <2> QED
    BY <1>1, <2>1, Unmoved
<1>3. ASSUME NEW j \in Jobs, Holds(w, j)
      PROVE  w \in HoldersOf[j] /\ HoldersOf' = [HoldersOf EXCEPT ![j] = @ \ {w}]
  <2>1. \A i \in Jobs \ {j} : ~Holds(w, i)
    BY <1>3 DEF Holds
  <2>2. w \in HoldersOf[j] /\ HoldersOf[j]' = HoldersOf[j] \ {w}
    BY <1>3 DEF HoldersOf
  <2>3. \A i \in Jobs \ {j} : HoldersOf[i]' = HoldersOf[i]
    BY <2>1 DEF HoldersOf
  <2>4. HoldersOf' = [i \in Jobs |-> HoldersOf[i]'] /\ HoldersOf = [i \in Jobs |-> HoldersOf[i]]
    BY DEF HoldersOf
  <2> QED
    BY <1>3, <2>2, <2>3, <2>4
<1> QED
  BY <1>1, <1>2, <1>3

LEMMA NextRefines == Claims /\ [Next]_vars => [Queue!Next]_(Queue!vars)
<1> SUFFICES ASSUME Claims, [Next]_vars PROVE [Queue!Next]_(Queue!vars)
  OBVIOUS
<1>0. Queue!vars = <<StatusOf, HoldersOf, HandledOf>>
  BY DEF Queue!vars, StatusOf, HoldersOf, HandledOf
<1>a. ASSUME UNCHANGED <<StatusOf, HoldersOf, HandledOf>> PROVE UNCHANGED Queue!vars
  BY <1>a DEF Queue!vars, StatusOf, HoldersOf, HandledOf
<1>b. ASSUME NEW w \in Workers, NEW j \in Jobs, w \in HoldersOf[j],
             HoldersOf' = [HoldersOf EXCEPT ![j] = @ \ {w}], UNCHANGED <<StatusOf, HandledOf>>
      PROVE  Queue!Next
  BY <1>b DEF Queue!Next, Queue!GiveUp, StatusOf, HoldersOf, HandledOf
<1>1. CASE Draw \/ (\E j \in Jobs : InsertFails(j)) \/ UNCHANGED vars
  <2>1. UNCHANGED <<naive_jobs, finished, handled, pc, job, session>>
    BY <1>1 DEF Draw, InsertFails, vars, table
  <2> QED
    BY <2>1, <1>a, Unmoved DEF Holds
<1>2. ASSUME NEW j \in Jobs, Inserted(j) PROVE Queue!Next
  <2>1. /\ StatusOf[j] = "new" /\ StatusOf' = [StatusOf EXCEPT ![j] = "waiting"]
    BY <1>2 DEF Inserted, StatusOf, Claims, IdsOnce, Known
  <2>2. UNCHANGED <<HoldersOf, HandledOf>>
    BY <1>2, Unmoved DEF Inserted, Holds
  <2> QED
    BY <2>1, <2>2 DEF Queue!Next, Queue!Add, StatusOf, HoldersOf, HandledOf
<1>3. ASSUME NEW w \in Workers, Begin(w) \/ Select(w) \/ StepOver(w) \/ Delete(w)
      PROVE  UNCHANGED Queue!vars
  <2>1. UNCHANGED <<naive_jobs, finished, handled>>
    BY <1>3 DEF Begin, Select, StepOver, Delete, table
  <2>2. \A v \in Workers, j \in Jobs : Holds(v, j)' = Holds(v, j)
    BY <1>3 DEF Begin, Select, StepOver, Delete, Holds, Claiming, Claims, TypeOK
  <2> QED
    BY <2>1, <2>2, <1>a, Unmoved
<1>4. ASSUME NEW w \in Workers, Lock(w) PROVE Queue!Next
  <2>1. PICK j \in cursor[w] : IsNext(w, j) /\ Lockable(j) /\ job' = [job EXCEPT ![w] = j]
    BY <1>4 DEF Lock
  <2>2. j \in Jobs
    BY <2>1 DEF Lockable, Claims, TypeOK
  <2>3. StatusOf[j] = "waiting" /\ HoldersOf[j] = {}
    BY <2>1, <2>2 DEF Lockable, StatusOf, HoldersOf
  <2>4. /\ \A i \in Jobs : Holds(w, i)' <=> i = j
        /\ \A v \in Workers \ {w}, i \in Jobs : Holds(v, i)' = Holds(v, i)
    BY <1>4, <2>1, <2>2 DEF Lock, IsNext, Holds, Claiming, Claims, TypeOK
  <2>5. \A i \in Jobs : ~Holds(w, i)
    BY <2>1 DEF IsNext, Holds, Claiming
  <2>6. HoldersOf' = [HoldersOf EXCEPT ![j] = {w}]
    BY <2>1, <2>2, <2>4, <2>5 DEF HoldersOf, Lockable
  <2>7. UNCHANGED <<StatusOf, HandledOf>>
    BY <1>4, Unmoved DEF Lock, table
  <2> QED
    BY <2>2, <2>3, <2>6, <2>7 DEF Queue!Next, Queue!Take, StatusOf, HoldersOf, HandledOf
<1>5. ASSUME NEW w \in Workers, NoRows(w) \/ HandleFails(w) \/ StatementFails(w)
      PROVE  [Queue!Next]_(Queue!vars)
  <2>1. Return(w) /\ UNCHANGED <<naive_jobs, finished, handled, session>>
    BY <1>5 DEF NoRows, HandleFails, StatementFails, table
  <2>2. /\ \A j \in Jobs : ~Holds(w, j)'
        /\ \A v \in Workers \ {w}, j \in Jobs : Holds(v, j)' = Holds(v, j)
    BY <2>1, Returns DEF Holds, Claiming, Claims
  <2> QED
    BY <2>1, <2>2, <1>a, <1>b, Releases
<1>6. ASSUME NEW w \in Workers, SessionLost(w) PROVE [Queue!Next]_(Queue!vars)
  <2>1. /\ UNCHANGED <<naive_jobs, finished, handled>>
        /\ \A j \in Jobs : ~Holds(w, j)'
        /\ \A v \in Workers \ {w}, j \in Jobs : Holds(v, j)' = Holds(v, j)
    BY <1>6 DEF SessionLost, Holds, table, Claims, TypeOK
  <2> QED
    BY <2>1, <1>a, <1>b, Releases
<1>7. ASSUME NEW w \in Workers, HandleSucceeds(w) PROVE Queue!Next
  <2>1. job[w] \in Jobs /\ job[w] \in Known
    BY <1>7, ClaimedJob DEF HandleSucceeds, Claiming
  <2>2. StatusOf[job[w]] # "new"
    BY <2>1 DEF StatusOf, Known
  <2>3. HandledOf' = HandledOf \cup {job[w]}
    BY <1>7, <2>1 DEF HandleSucceeds, HandledOf, Claims, TypeOK
  <2>4. \A v \in Workers, j \in Jobs : Holds(v, j)' = Holds(v, j)
    BY <1>7 DEF HandleSucceeds, Holds, Claiming, Claims, TypeOK
  <2>5. UNCHANGED <<StatusOf, HoldersOf>>
    BY <1>7, <2>4, Unmoved DEF HandleSucceeds, table
  <2> QED
    BY <2>1, <2>2, <2>3, <2>5 DEF Queue!Next, Queue!Handle, StatusOf, HoldersOf, HandledOf
<1>8. ASSUME NEW w \in Workers, Commit(w) PROVE Queue!Next
  <2> DEFINE j == job[w]
  <2>1. j \in Jobs /\ Holds(w, j)
    BY <1>8, ClaimedJob DEF Commit, Holds, Claiming
  <2>2. j \in naive_jobs /\ j \notin finished /\ \A v \in Workers : Holds(v, j) => v = w
    BY <2>1 DEF Claims, IdsOnce, ClaimsHold
  <2>3. StatusOf[j] = "waiting" /\ HoldersOf[j] = {w} /\ j \in HandledOf
    BY <1>8, <2>1, <2>2 DEF StatusOf, HoldersOf, HandledOf, Commit, Claims, ClaimsHold
  <2>4. StatusOf' = [StatusOf EXCEPT ![j] = "finished"]
    BY <1>8, <2>1 DEF Commit, StatusOf
  <2>5. /\ \A i \in Jobs : ~Holds(w, i)'
        /\ \A v \in Workers \ {w}, i \in Jobs : Holds(v, i)' = Holds(v, i)
    BY <1>8, Returns DEF Commit, Holds, Claiming, Claims
  <2>6. \A i \in Jobs : Holds(w, i) => i = j
    BY <2>1 DEF Holds
  <2>7. HoldersOf' = [HoldersOf EXCEPT ![j] = {}]
    BY <2>1, <2>2, <2>5, <2>6 DEF HoldersOf
  <2>8. UNCHANGED HandledOf
    BY <1>8, Unmoved DEF Commit
  <2> QED
    BY <2>1, <2>3, <2>4, <2>7, <2>8 DEF Queue!Next, Queue!Finish, StatusOf, HoldersOf, HandledOf
<1> QED
  BY <1>1, <1>2, <1>3, <1>4, <1>5, <1>6, <1>7, <1>8 DEF Next, Dequeue

\* The queue implements JobQueue: a row lock is a claim, the committed deletion the
\* end of the job, and no job is finished that was not handled.
THEOREM NaiveQueueImplementsJobQueue == Spec => QueueSpec
<1>1. Init => Queue!Init
  BY InitRefines
<1>2. Claims /\ [Next]_vars => [Queue!Next]_(Queue!vars)
  BY NextRefines
<1> QED
  BY <1>1, <1>2, ClaimsAlways, PTL DEF Spec, QueueSpec, Queue!Spec
-----------------------------------------------------------------------------
(* Repeats. Every end of a handler but the last is paid for by a fault. A  *)
(* handler that goes on without its session was paid for when it lost it.  *)

\* Handlers at j whose session is lost; j was handled and its claim still stands,
\* or its row is gone.
Outlived(j) == {w \in Workers : pc[w] = "handle" /\ session[w] = "lost" /\ job[w] = j}
Spent(j) == j \in finished \/ \E w \in Workers : Holds(w, j) /\ pc[w] \in {"delete", "commit"}

Paid(j) ==
  /\ IsFiniteSet(Outlived(j))
  /\ handled[j] + Cardinality(Outlived(j)) <= faults + IF Spent(j) THEN 1 ELSE 0

Charged == \A j \in Jobs : Paid(j)

\* A job stays paid for when nothing is added, unless a claim is given up for free.
LEMMA StaysPaid ==
  ASSUME TypeOK, TypeOK', NEW j \in Jobs, Paid(j), Outlived(j)' = Outlived(j),
         handled'[j] = handled[j],
         \/ faults' = faults /\ (Spent(j) => Spent(j)')
         \/ faults' = faults + 1
  PROVE  Paid(j)'
<1>1. /\ handled[j] \in Nat /\ faults \in Nat /\ IsFiniteSet(Outlived(j))
      /\ Cardinality(Outlived(j)) \in Nat
  BY FS_CardinalityType DEF TypeOK, Paid
<1> DEFINE n == Cardinality(Outlived(j))
           m == Cardinality(Outlived(j)')
<1>2. m = n
  OBVIOUS
<1>3. handled[j] + n <= faults + IF Spent(j) THEN 1 ELSE 0
  BY DEF Paid
<1> HIDE DEF n
<1>4. handled'[j] + n <= faults' + IF Spent(j)' THEN 1 ELSE 0
  BY <1>1, <1>3 DEF n
<1> QED
  BY <1>1, <1>2, <1>4 DEF Paid, n

\* Who outlives its session and what is spent, from the parts they are read from.
LEMMA SameParts ==
  ASSUME NEW j \in Jobs, finished \subseteq finished',
         \A v \in Workers :
           /\ (pc'[v] = "handle" /\ session'[v] = "lost" /\ job'[v] = j)
                <=> (pc[v] = "handle" /\ session[v] = "lost" /\ job[v] = j)
           /\ (Holds(v, j) /\ pc[v] \in {"delete", "commit"})
                => (Holds(v, j)' /\ pc'[v] \in {"delete", "commit"})
  PROVE  Outlived(j)' = Outlived(j) /\ (Spent(j) => Spent(j)')
BY DEF Outlived, Spent

\* Every step that ends a handler, or a claim behind one, is paid for.
LEMMA NextCharged ==
  ASSUME Claims, Charged, [Next]_vars
  PROVE  Charged'
<1> SUFFICES ASSUME NEW j \in Jobs PROVE Paid(j)'
  BY DEF Charged
<1>a. TypeOK /\ TypeOK' /\ Paid(j)
  BY NextTypes DEF Claims, Charged
<1>b. /\ handled[j] \in Nat /\ faults \in Nat /\ IsFiniteSet(Outlived(j))
      /\ Cardinality(Outlived(j)) \in Nat
  BY <1>a, FS_CardinalityType DEF TypeOK, Paid
<1>1. CASE Draw \/ (\E i \in Jobs : Inserted(i) \/ InsertFails(i)) \/ UNCHANGED vars
  <2>1. UNCHANGED <<finished, pc, job, session, handled, faults>>
    BY <1>1 DEF Draw, Inserted, InsertFails, vars, table
  <2> QED
    BY <2>1, <1>a, SameParts, StaysPaid DEF Holds
<1>2. ASSUME NEW w \in Workers,
             Begin(w) \/ Select(w) \/ StepOver(w) \/ Lock(w) \/ Delete(w)
      PROVE  Paid(j)'
  <2>1. UNCHANGED <<finished, handled, faults>>
    BY <1>2 DEF Begin, Select, StepOver, Lock, Delete, table
  <2>2. Outlived(j)' = Outlived(j) /\ (Spent(j) => Spent(j)')
    <3>1. CASE Begin(w)
      BY <1>a, <2>1, <3>1, SameParts DEF Begin, Holds, Claiming, TypeOK
    <3>2. CASE Select(w)
      BY <1>a, <2>1, <3>2, SameParts DEF Select, Holds, Claiming, TypeOK
    <3>3. CASE StepOver(w)
      BY <1>a, <2>1, <3>3, SameParts DEF StepOver, Holds, Claiming, TypeOK
    <3>4. CASE Lock(w)
      BY <1>a, <2>1, <3>4, SameParts DEF Lock, IsNext, Holds, Claiming, TypeOK
    <3>5. CASE Delete(w)
      BY <1>a, <2>1, <3>5, SameParts DEF Delete, Holds, Claiming, TypeOK
    <3> QED
      BY <1>2, <3>1, <3>2, <3>3, <3>4, <3>5
  <2> QED
    BY <1>a, <2>1, <2>2, StaysPaid
<1>3. ASSUME NEW w \in Workers, NoRows(w) \/ StatementFails(w)
      PROVE  Paid(j)'
  <2>1. /\ Return(w) /\ UNCHANGED <<finished, session, handled>>
        /\ pc[w] # "handle"
        /\ \/ faults' = faults /\ (session[w] = "lost" \/ pc[w] = "scan")
           \/ faults' = faults + 1
    BY <1>3 DEF NoRows, StatementFails, table
  <2>2. Outlived(j)' = Outlived(j)
    BY <1>a, <2>1, Returns DEF Outlived
  <2>3. faults' = faults => (Spent(j) => Spent(j)')
    BY <1>a, <1>b, <2>1, Returns DEF Spent, Holds
  <2> QED
    BY <1>a, <2>1, <2>2, <2>3, StaysPaid
<1>4. ASSUME NEW w \in Workers, HandleFails(w)
      PROVE  Paid(j)'
  <2>1. Return(w) /\ UNCHANGED <<finished, session, handled, faults>> /\ pc[w] = "handle"
    BY <1>4 DEF HandleFails, table
  <2>2. Outlived(j)' = Outlived(j) \ {w}
    BY <1>a, <2>1, Returns DEF Outlived
  <2>3. Spent(j)' = Spent(j)
    BY <1>a, <2>1, Returns DEF Spent, Holds
  <2>4. /\ IsFiniteSet(Outlived(j) \ {w}) /\ Cardinality(Outlived(j) \ {w}) \in Nat
        /\ Cardinality(Outlived(j) \ {w}) <= Cardinality(Outlived(j))
    <3> DEFINE S == Outlived(j)
    <3>1. IsFiniteSet(S \ {w}) /\ Cardinality(S \ {w}) \in {Cardinality(S), Cardinality(S) - 1}
      BY <1>b, FS_RemoveElement
    <3>2. Cardinality(S \ {w}) \in Nat
      BY <3>1, FS_CardinalityType
    <3> QED
      BY <1>b, <3>1, <3>2
  <2> QED
    BY <1>a, <1>b, <2>1, <2>2, <2>3, <2>4 DEF Paid
<1>5. ASSUME NEW w \in Workers, HandleSucceeds(w)
      PROVE  Paid(j)'
  <2>1. /\ pc[w] = "handle" /\ pc' = [pc EXCEPT ![w] = "delete"]
        /\ handled' = [handled EXCEPT ![job[w]] = @ + 1]
        /\ UNCHANGED <<finished, job, session, faults>>
        /\ pc'[w] = "delete" /\ \A v \in Workers \ {w} : pc'[v] = pc[v]
    BY <1>5, <1>a DEF HandleSucceeds, table, TypeOK
  <2>2. CASE job[w] # j
    BY <1>a, <2>1, <2>2, SameParts, StaysPaid DEF TypeOK, Holds, Claiming
  <2>3. CASE job[w] = j /\ session[w] = "lost"
    <3>1. handled'[j] = handled[j] + 1
      BY <1>a, <2>1, <2>3 DEF TypeOK
    <3>2. w \in Outlived(j) /\ Outlived(j)' = Outlived(j) \ {w}
      BY <2>1, <2>3 DEF Outlived
    <3>3. Spent(j)' = Spent(j)
      BY <2>1, <2>3 DEF Spent, Holds
    <3>4. /\ IsFiniteSet(Outlived(j) \ {w})
          /\ Cardinality(Outlived(j) \ {w}) = Cardinality(Outlived(j)) - 1
      BY <1>b, <3>2, FS_RemoveElement
    <3> QED
      BY <1>a, <1>b, <2>1, <3>1, <3>2, <3>3, <3>4 DEF Paid
  <2>4. CASE job[w] = j /\ session[w] = "open"
    <3>1. handled'[j] = handled[j] + 1
      BY <1>a, <2>1, <2>4 DEF TypeOK
    <3>2. Outlived(j)' = Outlived(j)
      BY <2>1, <2>4 DEF Outlived
    <3>3. Holds(w, j)
      BY <2>1, <2>4 DEF Holds, Claiming
    <3>4. ~Spent(j)
      BY <2>1, <3>3 DEF Spent, Claims, IdsOnce, ClaimsHold
    <3>5. Spent(j)'
      BY <2>1, <2>4 DEF Spent, Holds, Claiming
    <3> QED
      BY <1>a, <1>b, <2>1, <3>1, <3>2, <3>4, <3>5 DEF Paid
  <2> QED
    BY <1>a, <2>2, <2>3, <2>4 DEF TypeOK
<1>6. ASSUME NEW w \in Workers, Commit(w)
      PROVE  Paid(j)'
  <2>1. /\ Return(w) /\ UNCHANGED <<session, handled, faults>> /\ pc[w] = "commit"
        /\ finished' = finished \cup {job[w]}
    BY <1>6 DEF Commit
  <2>2. Outlived(j)' = Outlived(j)
    BY <1>a, <2>1, Returns DEF Outlived
  <2>3. Spent(j) => Spent(j)'
    BY <1>a, <2>1, Returns DEF Spent, Holds
  <2> QED
    BY <1>a, <2>1, <2>2, <2>3, StaysPaid
<1>7. ASSUME NEW w \in Workers, SessionLost(w)
      PROVE  Paid(j)'
  <2>1. /\ session[w] = "open" /\ session' = [session EXCEPT ![w] = "lost"]
        /\ faults' = faults + 1 /\ UNCHANGED <<finished, pc, job, handled>>
        /\ session'[w] = "lost" /\ \A v \in Workers \ {w} : session'[v] = session[v]
    BY <1>7, <1>a DEF SessionLost, table, TypeOK
  <2>2. CASE pc[w] # "handle" \/ job[w] # j
    <3>1. Outlived(j)' = Outlived(j)
      BY <2>1, <2>2 DEF Outlived
    <3> QED
      BY <1>a, <2>1, <3>1, StaysPaid
  <2>3. CASE pc[w] = "handle" /\ job[w] = j
    <3>1. w \notin Outlived(j) /\ Outlived(j)' = Outlived(j) \cup {w}
      BY <2>1, <2>3 DEF Outlived
    <3>2. Spent(j) => Spent(j)'
      BY <2>1, <2>3 DEF Spent, Holds
    <3>3. /\ IsFiniteSet(Outlived(j) \cup {w})
          /\ Cardinality(Outlived(j) \cup {w}) = Cardinality(Outlived(j)) + 1
      BY <1>b, <3>1, FS_AddElement
    <3> QED
      BY <1>a, <1>b, <2>1, <3>1, <3>2, <3>3 DEF Paid
  <2> QED
    BY <2>2, <2>3
<1> QED
  BY <1>1, <1>2, <1>3, <1>4, <1>5, <1>6, <1>7 DEF Next, Dequeue

\* A job is handled no more than once plus the number of faults: the row comes free
\* again behind a handler only by a failed statement or a lost session.
THEOREM HandledOnceMoreHolds == Spec => []HandledOnceMore
<1>1. Init => Charged
  <2> SUFFICES ASSUME Init, NEW j \in Jobs PROVE Paid(j)
    BY DEF Charged
  <2>1. Outlived(j) = {} /\ handled[j] = 0 /\ faults = 0 /\ ~Spent(j)
    BY DEF Init, Outlived, Spent, Holds, Claiming
  <2> QED
    BY <2>1, FS_EmptySet DEF Paid
<1>2. Claims /\ Charged => HandledOnceMore
  <2> SUFFICES ASSUME Claims, Charged, NEW j \in Jobs
               PROVE  handled[j] <= 1 + faults
    BY DEF HandledOnceMore
  <2>1. Paid(j) /\ handled[j] \in Nat /\ faults \in Nat
    BY DEF Charged, Claims, TypeOK
  <2>2. Cardinality(Outlived(j)) \in Nat
    BY <2>1, FS_CardinalityType DEF Paid
  <2> QED
    BY <2>1, <2>2 DEF Paid
<1>3. Claims /\ Charged /\ [Next]_vars => Charged'
  BY NextCharged
<1> QED
  BY <1>1, <1>2, <1>3, ClaimsAlways, PTL DEF Spec
=============================================================================
