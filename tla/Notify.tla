-------------------------------- MODULE Notify --------------------------------
(***************************************************************************)
(* Alerts: the LISTEN/NOTIFY listener with its sessions and its bounded    *)
(* output channel, and the router that offers each notification to the     *)
(* adapters, retries, and records what failed in the dead-letter table;    *)
(* lost connections, failing adapters and inserts, shutdown, crashes and   *)
(* restarts.                                                               *)
(*                                                                         *)
(* Abstractions.                                                           *)
(*  - A notification is an identity and a channel; parsing is left out,    *)
(*    and with it the MMSI filter of a subscription.                       *)
(*  - LISTEN statements are issued in any order.                           *)
(*  - Backoffs are delays that a cancelled context cuts short.             *)
(***************************************************************************)
EXTENDS Naturals, FiniteSets, Sequences

CONSTANTS
  Notes,         \* notifications the database can raise, [id, channel]
  Channels,      \* channels the listener listens on
  Adapters,      \* sequence of [channels, fallible] in order of registration
  NoNote,
  OutBuffer,     \* capacity of the listener's output channel
  MaxAttempts,   \* Router.maxAttempts
  MaxDisconnects, MaxFaults, MaxStops

ASSUME NotifyAssumption ==
  /\ Notes \subseteq [id : Nat, channel : Channels] /\ NoNote \notin Notes
  /\ Adapters \in Seq([channels : SUBSET Channels, fallible : BOOLEAN])
  /\ OutBuffer \in Nat \ {0} /\ MaxAttempts \in Nat \ {0}
  /\ MaxDisconnects \in Nat /\ MaxFaults \in Nat /\ MaxStops \in Nat

VARIABLES
  raised,       \* notifications of committed transactions
  \* the connection
  alive,        \* it is up
  subs,         \* channels its backend has executed LISTEN for
  wire,         \* notifications sent to it and not yet read
  \* the listener
  lst,          \* down, idle (backoff), connecting, listening, pushing, stopped
  held,         \* the notification it is pushing
  out,          \* the output channel
  \* the router
  rt,           \* down, select, attempt, backoff, record, stopped
  event,        \* the notification being handled
  at,           \* index of the adapter at hand
  attempt,
  cancelled,    \* the context both share
  \* outside
  delivered,    \* <<adapter, notification>> that reached its sink
  dead,         \* alert_dispatch_failures
  exhausted,    \* history: pairs whose MaxAttempts attempts all failed
  heard,        \* history: notifications sent to a live connection
  handled,      \* history: notifications handle has returned from
  disconnects, faults, stops

conn == <<alive, subs, wire>>
listener == <<lst, held, out>>
router == <<rt, event, at, attempt>>
outcomes == <<delivered, dead, exhausted, handled>>
bounds == <<disconnects, faults, stops>>
vars == <<raised, conn, listener, router, cancelled, outcomes, heard, bounds>>

Pairs == (DOMAIN Adapters) \X Notes

TypeOK ==
  /\ raised \subseteq Notes /\ heard \subseteq raised /\ handled \subseteq heard
  /\ alive \in BOOLEAN /\ subs \subseteq Channels /\ wire \in Seq(Notes)
  /\ lst \in {"down", "idle", "connecting", "listening", "pushing", "stopped"}
  /\ held \in Notes \cup {NoNote} /\ (held # NoNote <=> lst = "pushing")
  /\ out \in Seq(Notes) /\ Len(out) <= OutBuffer
  /\ rt \in {"down", "select", "attempt", "backoff", "record", "stopped"}
  /\ event \in Notes \cup {NoNote}
  /\ rt \in {"attempt", "backoff", "record"} => event # NoNote /\ at \in DOMAIN Adapters
  /\ at \in 0 .. Len(Adapters) /\ attempt \in 0 .. MaxAttempts
  /\ cancelled \in BOOLEAN
  /\ delivered \subseteq Pairs /\ dead \subseteq Pairs /\ exhausted \subseteq Pairs
  /\ disconnects \in Nat /\ faults \in Nat /\ stops \in Nat

Init ==
  /\ raised = {} /\ alive = FALSE /\ subs = {} /\ wire = <<>>
  /\ lst = "down" /\ held = NoNote /\ out = <<>>
  /\ rt = "down" /\ event = NoNote /\ at = 0 /\ attempt = 0
  /\ cancelled = FALSE
  /\ delivered = {} /\ dead = {} /\ exhausted = {} /\ heard = {} /\ handled = {}
  /\ disconnects = 0 /\ faults = 0 /\ stops = 0

-----------------------------------------------------------------------------
(* The database.                                                           *)

\* A NOTIFY goes to the backends that listen when its transaction commits.
Raise(n) ==
  /\ n \notin raised
  /\ raised' = raised \cup {n}
  /\ IF alive /\ n.channel \in subs
       THEN wire' = Append(wire, n) /\ heard' = heard \cup {n}
       ELSE UNCHANGED <<wire, heard>>
  /\ UNCHANGED <<alive, subs, listener, router, cancelled, outcomes, bounds>>

\* Of what was sent, the listener will read some prefix.
LoseConnection ==
  /\ alive /\ disconnects < MaxDisconnects
  /\ disconnects' = disconnects + 1
  /\ alive' = FALSE
  /\ \E k \in 0 .. Len(wire) : wire' = SubSeq(wire, 1, k)
  /\ UNCHANGED <<raised, subs, listener, router, cancelled, outcomes, heard, faults, stops>>

-----------------------------------------------------------------------------
(* The listener.                                                           *)

NoConnection == alive' = FALSE /\ subs' = {} /\ wire' = <<>>

Connect ==
  /\ lst = "idle" /\ ~cancelled
  /\ lst' = "connecting" /\ alive' = TRUE /\ subs' = {} /\ wire' = <<>>
  /\ UNCHANGED <<raised, held, out, router, cancelled, outcomes, heard, bounds>>

Listen ==
  /\ lst = "connecting" /\ alive
  /\ \E c \in Channels \ subs : subs' = subs \cup {c}
  /\ lst' = IF subs' = Channels THEN "listening" ELSE lst
  /\ UNCHANGED <<raised, alive, wire, held, out, router, cancelled, outcomes, heard, bounds>>

Receive ==
  /\ lst = "listening" /\ wire # <<>>
  /\ held' = Head(wire) /\ wire' = Tail(wire)
  /\ lst' = "pushing"
  /\ UNCHANGED <<raised, alive, subs, out, router, cancelled, outcomes, heard, bounds>>

\* Mutant: a full channel drops the notification, as emit does.
PushOrDrop ==
  /\ lst = "pushing"
  /\ out' = IF Len(out) < OutBuffer THEN Append(out, held) ELSE out
  /\ lst' = "listening" /\ held' = NoNote
  /\ UNCHANGED <<raised, conn, router, cancelled, outcomes, heard, bounds>>

\* A full output channel blocks the listener.
Push ==
  /\ lst = "pushing" /\ Len(out) < OutBuffer
  /\ out' = Append(out, held)
  /\ lst' = "listening" /\ held' = NoNote
  /\ UNCHANGED <<raised, conn, router, cancelled, outcomes, heard, bounds>>

\* A dead connection is noticed once everything read is pushed.
SessionFails ==
  /\ ~alive
  /\ \/ lst = "connecting"
     \/ lst = "listening" /\ wire = <<>>
  /\ lst' = IF cancelled THEN "stopped" ELSE "idle"
  /\ NoConnection
  /\ UNCHANGED <<raised, held, out, router, cancelled, outcomes, heard, bounds>>

\* Mutant: the push does not watch the context.
ListenerStopsUnlessPushing ==
  /\ cancelled /\ lst \in {"idle", "connecting", "listening"}
  /\ lst' = "stopped" /\ held' = NoNote
  /\ NoConnection
  /\ UNCHANGED <<raised, out, router, cancelled, outcomes, heard, bounds>>

\* Wherever it waits, the listener sees the context; what it holds is dropped.
\* Run returns and closes the output channel.
ListenerStops ==
  /\ cancelled /\ lst \in {"idle", "connecting", "listening", "pushing"}
  /\ lst' = "stopped" /\ held' = NoNote
  /\ NoConnection
  /\ UNCHANGED <<raised, out, router, cancelled, outcomes, heard, bounds>>

-----------------------------------------------------------------------------
(* The router.                                                             *)

\* An adapter registered without channels gets every event.
Matches(k, n) == Adapters[k].channels = {} \/ n.channel \in Adapters[k].channels

Matching(k, n) == {j \in DOMAIN Adapters : j > k /\ Matches(j, n)}

\* handle goes on to the next matching adapter after k, or is done with n.
Offer(k, n) ==
  IF Matching(k, n) = {}
    THEN /\ rt' = "select" /\ event' = NoNote /\ at' = 0 /\ attempt' = 0
         /\ handled' = handled \cup {n}
    ELSE /\ rt' = "attempt" /\ event' = n /\ attempt' = 1
         /\ at' = CHOOSE j \in Matching(k, n) : \A i \in Matching(k, n) : j <= i
         /\ UNCHANGED handled

\* select may prefer a queued notification to a cancelled context.
RouterTakes ==
  /\ rt = "select" /\ out # <<>>
  /\ out' = Tail(out)
  /\ Offer(0, Head(out))
  /\ UNCHANGED <<raised, conn, lst, held, cancelled, delivered, dead, exhausted, heard, bounds>>

\* The context is done, or the listener has closed the channel.
RouterStops ==
  /\ rt = "select"
  /\ \/ cancelled
     \/ lst = "stopped" /\ out = <<>>
  /\ rt' = "stopped"
  /\ UNCHANGED <<raised, conn, listener, event, at, attempt, cancelled, outcomes, heard, bounds>>

Pair == <<at, event>>

\* A fallible adapter gives up at once when the context is cancelled.
Delivers ==
  /\ rt = "attempt"
  /\ Adapters[at].fallible => ~cancelled
  /\ delivered' = delivered \cup {Pair}
  /\ Offer(at, event)
  /\ UNCHANGED <<raised, conn, listener, cancelled, dead, exhausted, heard, bounds>>

\* Mutant: after the last attempt the router just goes on.
FailsForGood(k, n) == Offer(k, n)

\* Every attempt has failed.
Exhausts(k, n) == rt' = "record" /\ UNCHANGED <<event, at, attempt, handled>>

\* An attempt fails, perhaps after the sink has taken the event.
AttemptFails ==
  /\ rt = "attempt" /\ Adapters[at].fallible
  /\ delivered' \in {delivered} \cup (IF cancelled THEN {} ELSE {delivered \cup {Pair}})
  /\ IF attempt = MaxAttempts
       THEN Exhausts(at, event) /\ exhausted' = exhausted \cup {Pair}
       ELSE rt' = "backoff" /\ UNCHANGED <<event, at, attempt, handled, exhausted>>
  /\ UNCHANGED <<raised, conn, listener, cancelled, dead, heard, bounds>>

Retry ==
  /\ rt = "backoff"
  /\ rt' = "attempt" /\ attempt' = attempt + 1
  /\ UNCHANGED <<raised, conn, listener, event, at, cancelled, outcomes, heard, bounds>>

\* A cancelled context ends the retries, with an error like any other.
GiveUp ==
  /\ rt = "backoff" /\ cancelled
  /\ rt' = "record"
  /\ UNCHANGED <<raised, conn, listener, event, at, attempt, cancelled, outcomes, heard, bounds>>

\* The dead-letter insert runs under the same context as the attempts.
InsertIsLive == ~cancelled

DeadLetter ==
  /\ rt = "record"
  /\ \/ InsertIsLive /\ dead' = dead \cup {Pair} /\ UNCHANGED faults
     \/ ~InsertIsLive /\ UNCHANGED <<dead, faults>>
     \/ /\ InsertIsLive /\ faults < MaxFaults
        /\ faults' = faults + 1 /\ UNCHANGED dead
  /\ Offer(at, event)
  /\ UNCHANGED <<raised, conn, listener, cancelled, delivered, exhausted, heard, disconnects, stops>>

-----------------------------------------------------------------------------
(* The process.                                                            *)

Start ==
  /\ lst = "down" /\ rt = "down"
  /\ lst' = "idle" /\ rt' = "select"
  /\ UNCHANGED <<raised, conn, held, out, event, at, attempt, cancelled, outcomes, heard, bounds>>

Cancel ==
  /\ rt # "down" /\ ~cancelled /\ stops < MaxStops
  /\ cancelled' = TRUE /\ stops' = stops + 1
  /\ UNCHANGED <<raised, conn, listener, router, outcomes, heard, disconnects, faults>>

\* The process exits, at the end of a shutdown or at any time.
Exit ==
  /\ rt # "down"
  /\ \/ rt = "stopped" /\ lst = "stopped" /\ UNCHANGED stops
     \/ stops < MaxStops /\ stops' = stops + 1
  /\ NoConnection
  /\ lst' = "down" /\ held' = NoNote /\ out' = <<>>
  /\ rt' = "down" /\ event' = NoNote /\ at' = 0 /\ attempt' = 0
  /\ cancelled' = FALSE
  /\ UNCHANGED <<raised, outcomes, heard, disconnects, faults>>

-----------------------------------------------------------------------------
Listener == Connect \/ Listen \/ Receive \/ Push \/ SessionFails \/ ListenerStops
Router ==
  \/ RouterTakes \/ RouterStops \/ Delivers \/ AttemptFails \/ Retry \/ GiveUp
  \/ DeadLetter

Next ==
  \/ \E n \in Notes : Raise(n)
  \/ LoseConnection
  \/ Listener \/ Router
  \/ Start \/ Cancel \/ Exit

Spec == Init /\ [][Next]_vars

\* The two goroutines are always scheduled: an attempt ends within the client's
\* timeout, a backoff with its timer, a connect or an insert with its context.
FairSpec == Spec /\ WF_vars(Listener) /\ WF_vars(Router)

-----------------------------------------------------------------------------
(* Properties.                                                             *)

\* "With retry and a dead-letter table": unless the process stopped or an insert
\* failed, every adapter that wants a handled notification got it or left a row;
\* and a row always stands for an event whose attempts were all made and all
\* failed, also when a shutdown cut the retries short.
HandledIsSettled ==
  /\ dead \subseteq exhausted
  /\ stops = 0 /\ faults = 0 =>
       \A n \in handled, k \in DOMAIN Adapters :
         Matches(k, n) => <<k, n>> \in delivered \cup dead

\* Back pressure: a notification that reached the connection is handled, however
\* often adapters fail and however full the channel is; a full channel makes the
\* listener wait.
HeardIsHandled ==
  \A n \in Notes :
    n \in heard ~> (n \in handled \/ disconnects > 0 \/ stops > 0)

\* A cancelled listener and router both stop, from whatever they are doing.
ShutdownCompletes == cancelled ~> (rt \in {"stopped", "down"} /\ lst \in {"stopped", "down"})
=============================================================================
