------------------------------ MODULE JobQueue ------------------------------
(***************************************************************************)
(* What a job queue promises, with no mention of rows, locks and           *)
(* transactions.  A job that was added waits until it is finished; a job   *)
(* is held by one worker at a time, which may give it up; only its holder  *)
(* finishes it, and not before somebody has handled it; a finished job is  *)
(* never held again.                                                       *)
(***************************************************************************)
CONSTANTS Jobs, Workers

VARIABLES
  status,   \* "new", "waiting" or "finished", by job
  holders,  \* the workers that hold a job
  handled   \* jobs some worker has handled, perhaps more than once
vars == <<status, holders, handled>>

Init ==
  /\ status = [j \in Jobs |-> "new"]
  /\ holders = [j \in Jobs |-> {}]
  /\ handled = {}

Add(j) ==
  /\ status[j] = "new"
  /\ status' = [status EXCEPT ![j] = "waiting"]
  /\ UNCHANGED <<holders, handled>>

Take(w, j) ==
  /\ status[j] = "waiting" /\ holders[j] = {}
  /\ holders' = [holders EXCEPT ![j] = {w}]
  /\ UNCHANGED <<status, handled>>

GiveUp(w, j) ==
  /\ w \in holders[j]
  /\ holders' = [holders EXCEPT ![j] = @ \ {w}]
  /\ UNCHANGED <<status, handled>>

\* A worker that lost its hold may still be at it.
Handle(j) ==
  /\ status[j] # "new"
  /\ handled' = handled \cup {j}
  /\ UNCHANGED <<status, holders>>

Finish(w, j) ==
  /\ status[j] = "waiting" /\ holders[j] = {w} /\ j \in handled
  /\ status' = [status EXCEPT ![j] = "finished"]
  /\ holders' = [holders EXCEPT ![j] = {}]
  /\ UNCHANGED handled

Next ==
  \E j \in Jobs :
    \/ Add(j) \/ Handle(j)
    \/ \E w \in Workers : Take(w, j) \/ GiveUp(w, j) \/ Finish(w, j)

Spec == Init /\ [][Next]_vars
=============================================================================
