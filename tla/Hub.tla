--------------------------------- MODULE Hub ---------------------------------
(***************************************************************************)
(* The WebSocket hub: the broadcaster, which is the flush path of the      *)
(* writer, and for each client a write loop (Serve) and a read loop.       *)
(*                                                                         *)
(* The mutex is held by the broadcaster from BeginBroadcast to             *)
(* EndBroadcast, and by add, remove and Shutdown for one step each, so     *)
(* that these wait for broadcast = "idle".                                 *)
(*                                                                         *)
(* Abstractions.                                                           *)
(*  - A frame is its place in the broadcasts: <<round, index>>.            *)
(*  - A message that is not a well-formed subscribe changes nothing and is *)
(*    left out, as are a fix that does not encode and pings that succeed.  *)
(*  - A client connects once.                                              *)
(***************************************************************************)
EXTENDS Integers, Sequences

CONSTANTS
  Clients, NoClient,
  Boxes,       \* the boxes clients send: corners <<lon, lat, lon, lat>>
  NoBox,
  Batches,     \* the updates of successive flushes: sequences of <<lon, lat>>
  SubBuffer,   \* subBuffer, the capacity of a subscriber's queue
  MaxSubscribes, MaxBreaks

ASSUME HubAssumption ==
  /\ NoClient \notin Clients
  /\ Boxes \subseteq Int \X Int \X Int \X Int
  /\ NoBox \notin Int \X Int \X Int \X Int
  /\ Batches \in Seq(Seq(Int \X Int))
  /\ SubBuffer \in Nat \ {0} /\ MaxSubscribes \in Nat /\ MaxBreaks \in Nat

VARIABLES
  subs,        \* Hub.subs, the registered subscribers
  done,        \* Hub.done is closed
  \* the broadcaster
  broadcast,   \* idle, visit (choosing a subscriber), push
  round,       \* number of broadcasts begun
  left,        \* subscribers it has yet to visit
  cur, box,    \* the one it is at, and the filter it loaded
  next,        \* the update it is at
  \* a connection
  conn,        \* new, accepted, select, writing, leaving, gone
  reading,     \* its read loop runs
  ended,       \* its context is cancelled
  filter,      \* subscriber.bbox
  queue,       \* subscriber.ch
  \* history
  asked,       \* the boxes it sent
  since,       \* its last box and the round at which it was stored
  sent,        \* frames written to it
  missed,      \* frames dropped for it
  subscribes,  \* boxes stored so far, for the bound
  breaks       \* connections broken so far, for the bound

broadcaster == <<broadcast, round, left, cur, box, next>>
connection == <<conn, reading, ended, filter, queue>>
history == <<asked, since, sent, missed, subscribes, breaks>>
hubVars == <<subs, done, broadcaster, connection, history>>

\* The clients in cs come; the others never do.
HubInit(cs) ==
  /\ subs = {} /\ done = FALSE
  /\ broadcast = "idle" /\ round = 0 /\ left = {} /\ cur = NoClient /\ box = NoBox /\ next = 1
  /\ conn = [c \in Clients |-> IF c \in cs THEN "new" ELSE "gone"] /\ reading = [c \in Clients |-> FALSE]
  /\ ended = [c \in Clients |-> FALSE]
  /\ filter = [c \in Clients |-> NoBox] /\ queue = [c \in Clients |-> <<>>]
  /\ asked = [c \in Clients |-> {}] /\ since = [c \in Clients |-> <<NoBox, 0>>]
  /\ sent = [c \in Clients |-> <<>>] /\ missed = [c \in Clients |-> {}]
  /\ subscribes = 0 /\ breaks = 0

-----------------------------------------------------------------------------
(* Boxes.                                                                  *)

\* Mutant: the corners are taken in the order in which they were sent.
TakenAsSent(b) == b

normalizeBox(b) ==
  LET Low(i) == IF b[i] > b[i + 2] THEN b[i + 2] ELSE b[i]
      High(i) == IF b[i] > b[i + 2] THEN b[i] ELSE b[i + 2]
  IN <<Low(1), Low(2), High(1), High(2)>>

inBox(b, p) == p[1] \in b[1] .. b[3] /\ p[2] \in b[2] .. b[4]

-----------------------------------------------------------------------------
(* Broadcast.                                                              *)

Update(f) == Batches[f[1]][f[2]]

\* Nothing to send returns before the lock is taken.
BeginBroadcast ==
  /\ broadcast = "idle" /\ round < Len(Batches)
  /\ round' = round + 1
  /\ IF Batches[round + 1] = <<>>
       THEN UNCHANGED <<broadcast, left>>
       ELSE broadcast' = "visit" /\ left' = subs
  /\ UNCHANGED <<subs, done, cur, box, next, connection, history>>

\* Mutant: a subscriber without a filter gets everything.
VisitAll(c) ==
  /\ broadcast = "visit" /\ c \in left
  /\ left' = left \ {c}
  /\ box' = IF filter[c] = NoBox THEN <<0, 0, 9, 9>> ELSE filter[c]
  /\ broadcast' = "push" /\ cur' = c /\ next' = 1
  /\ UNCHANGED <<subs, done, round, connection, history>>

\* Mutant: the subscriber is not taken off the list.
VisitAgain(c) ==
  /\ broadcast = "visit" /\ c \in left
  /\ IF filter[c] = NoBox
       THEN UNCHANGED <<broadcast, cur, box, next>>
       ELSE broadcast' = "push" /\ cur' = c /\ box' = filter[c] /\ next' = 1
  /\ UNCHANGED <<subs, done, round, left, connection, history>>

\* Its filter is loaded once; without one it receives nothing.
Visit(c) ==
  /\ broadcast = "visit" /\ c \in left
  /\ left' = left \ {c}
  /\ IF filter[c] = NoBox
       THEN UNCHANGED <<broadcast, cur, box, next>>
       ELSE broadcast' = "push" /\ cur' = c /\ box' = filter[c] /\ next' = 1
  /\ UNCHANGED <<subs, done, round, connection, history>>

Advance ==
  IF next < Len(Batches[round])
    THEN next' = next + 1 /\ UNCHANGED <<broadcast, cur, box>>
    ELSE next' = 1 /\ broadcast' = "visit" /\ cur' = NoClient /\ box' = NoBox

\* Mutant: the frame waits for room in the queue.
PushWaiting ==
  /\ broadcast = "push" /\ Len(queue[cur]) < SubBuffer
  /\ queue' = IF inBox(box, Update(<<round, next>>))
                THEN [queue EXCEPT ![cur] = Append(@, <<round, next>>)] ELSE queue
  /\ Advance
  /\ UNCHANGED <<subs, done, round, left, conn, reading, ended, filter, history>>

\* A frame inside the loaded filter is queued, or dropped when the queue is full.
Push ==
  /\ broadcast = "push"
  /\ LET f == <<round, next>> IN
       \/ ~inBox(box, Update(f)) /\ UNCHANGED <<queue, missed>>
       \/ /\ inBox(box, Update(f)) /\ Len(queue[cur]) < SubBuffer
          /\ queue' = [queue EXCEPT ![cur] = Append(@, f)]
          /\ UNCHANGED missed
       \/ /\ inBox(box, Update(f)) /\ Len(queue[cur]) = SubBuffer
          /\ missed' = [missed EXCEPT ![cur] = @ \cup {f}]
          /\ UNCHANGED queue
  /\ Advance
  /\ UNCHANGED <<subs, done, round, left, conn, reading, ended, filter, asked, since, sent, subscribes, breaks>>

EndBroadcast ==
  /\ broadcast = "visit" /\ left = {}
  /\ broadcast' = "idle"
  /\ UNCHANGED <<subs, done, round, left, cur, box, next, connection, history>>

-----------------------------------------------------------------------------
(* Connections.                                                            *)

Accept(c) ==
  /\ conn[c] = "new"
  /\ conn' = [conn EXCEPT ![c] = "accepted"]
  /\ UNCHANGED <<subs, done, broadcaster, reading, ended, filter, queue, history>>

\* Registers the subscriber and starts its read loop.
Add(c) ==
  /\ conn[c] = "accepted" /\ broadcast = "idle"
  /\ subs' = subs \cup {c}
  /\ conn' = [conn EXCEPT ![c] = "select"] /\ reading' = [reading EXCEPT ![c] = TRUE]
  /\ UNCHANGED <<done, broadcaster, ended, filter, queue, history>>

\* The read loop swaps the filter, whatever the other loops are doing.
Subscribe(c, b) ==
  /\ reading[c] /\ subscribes < MaxSubscribes
  /\ subscribes' = subscribes + 1
  /\ filter' = [filter EXCEPT ![c] = normalizeBox(b)]
  /\ asked' = [asked EXCEPT ![c] = @ \cup {b}]
  /\ since' = [since EXCEPT ![c] = <<b, round>>]
  /\ UNCHANGED <<subs, done, broadcaster, conn, reading, ended, queue, sent, missed, breaks>>

Break == breaks < MaxBreaks /\ breaks' = breaks + 1

\* The client left or the connection broke: the read loop cancels the context.
ReadFails(c) ==
  /\ reading[c] /\ Break
  /\ reading' = [reading EXCEPT ![c] = FALSE] /\ ended' = [ended EXCEPT ![c] = TRUE]
  /\ UNCHANGED <<subs, done, broadcaster, conn, filter, queue>>
  /\ UNCHANGED <<asked, since, sent, missed, subscribes>>

TakeFrame(c) ==
  /\ conn[c] = "select" /\ queue[c] # <<>>
  /\ conn' = [conn EXCEPT ![c] = "writing"]
  /\ sent' = [sent EXCEPT ![c] = Append(@, Head(queue[c]))]
  /\ queue' = [queue EXCEPT ![c] = Tail(@)]
  /\ UNCHANGED <<subs, done, broadcaster, reading, ended, filter, asked, since, missed, subscribes, breaks>>

\* A write ends within wsWriteTimeout.
WriteFrame(c) ==
  /\ conn[c] = "writing"
  /\ conn' = [conn EXCEPT ![c] = "select"]
  /\ UNCHANGED <<subs, done, broadcaster, reading, ended, filter, queue, history>>

\* A write or a ping fails, for instance at its deadline.
WriteFails(c) ==
  /\ conn[c] \in {"writing", "select"} /\ Break
  /\ conn' = [conn EXCEPT ![c] = "leaving"]
  /\ UNCHANGED <<subs, done, broadcaster, reading, ended, filter, queue>>
  /\ UNCHANGED <<asked, since, sent, missed, subscribes>>

Leaves(c) ==
  /\ conn[c] = "select"
  /\ conn' = [conn EXCEPT ![c] = "leaving"]
  /\ UNCHANGED <<subs, done, broadcaster, reading, ended, filter, queue, history>>

ContextDone(c) == ended[c] /\ Leaves(c)

\* Mutant: a connection added after the shutdown is not told.
HubDoneIfServed(c) == done /\ sent[c] # <<>> /\ Leaves(c)
HubDone(c) == done /\ Leaves(c)

\* The deferred cancel and remove of Serve; the subscriber and its history end.
Remove(c) ==
  /\ conn[c] = "leaving" /\ broadcast = "idle"
  /\ subs' = subs \ {c}
  /\ conn' = [conn EXCEPT ![c] = "gone"]
  /\ reading' = [reading EXCEPT ![c] = FALSE] /\ ended' = [ended EXCEPT ![c] = FALSE]
  /\ filter' = [filter EXCEPT ![c] = NoBox] /\ queue' = [queue EXCEPT ![c] = <<>>]
  /\ asked' = [asked EXCEPT ![c] = {}] /\ since' = [since EXCEPT ![c] = <<NoBox, 0>>]
  /\ sent' = [sent EXCEPT ![c] = <<>>] /\ missed' = [missed EXCEPT ![c] = {}]
  /\ UNCHANGED <<done, broadcaster, subscribes, breaks>>

\* The process exits, and all of this with it.
HubGone ==
  /\ subs' = {} /\ broadcast' = "idle" /\ left' = {}
  /\ cur' = NoClient /\ box' = NoBox /\ next' = 1
  /\ conn' = [c \in Clients |-> "gone"] /\ reading' = [c \in Clients |-> FALSE]
  /\ ended' = [c \in Clients |-> FALSE]
  /\ filter' = [c \in Clients |-> NoBox] /\ queue' = [c \in Clients |-> <<>>]
  /\ asked' = [c \in Clients |-> {}] /\ since' = [c \in Clients |-> <<NoBox, 0>>]
  /\ sent' = [c \in Clients |-> <<>>] /\ missed' = [c \in Clients |-> {}]
  /\ UNCHANGED <<done, round, subscribes, breaks>>

\* Shutdown may be called again.
Shutdown ==
  /\ broadcast = "idle"
  /\ done' = TRUE
  /\ UNCHANGED <<subs, broadcaster, connection, history>>

-----------------------------------------------------------------------------
Broadcaster ==
  BeginBroadcast \/ EndBroadcast \/ Push \/ \E c \in Clients : Visit(c)

Broadcasting == broadcast # "idle" /\ Broadcaster

\* The write loop goes on by itself; what fails is up to the client.
Serve(c) ==
  Add(c) \/ TakeFrame(c) \/ WriteFrame(c) \/ ContextDone(c) \/ HubDone(c) \/ Remove(c)

ReadLoop(c) == ReadFails(c) \/ \E b \in Boxes : Subscribe(c, b)

Client(c) == Serve(c) \/ ReadLoop(c) \/ WriteFails(c)

-----------------------------------------------------------------------------
(* Properties.                                                             *)

Got(c) == sent[c] \o queue[c]

\* Inside the rectangle of two opposite corners, whichever they are.
Spans(b, p) ==
  /\ p[1] \in b[1] .. b[3] \cup b[3] .. b[1]
  /\ p[2] \in b[2] .. b[4] \cup b[4] .. b[2]

\* Broadcast filters by bounding box: whatever a client swaps while broadcasts are
\* under way, it only ever gets fixes inside a box it has asked for.
FramesAreWanted ==
  \A c \in Clients : \A i \in DOMAIN Got(c) :
    \E b \in asked[c] : Spans(b, Update(Got(c)[i]))

Before(f, g) == f[1] < g[1] \/ (f[1] = g[1] /\ f[2] < g[2])

\* Every connection sees the fixes in the order of the flushes, none of them twice,
\* also when some are dropped for it.
FramesInOrder ==
  \A c \in Clients : \A i, j \in DOMAIN Got(c) : i < j => Before(Got(c)[i], Got(c)[j])

Finished(r) == r < round \/ (r = round /\ broadcast = "idle")

\* A connected client whose filter was in place before a broadcast began gets
\* every fix of it inside the filter, in whatever order it sent the corners, or
\* the fix was counted as dropped for it.
FramesReachSubscribers ==
  \A c \in subs : \A r \in since[c][2] + 1 .. round : \A i \in DOMAIN Batches[r] :
    since[c][1] # NoBox /\ Finished(r) /\ Spans(since[c][1], Batches[r][i]) =>
      <<r, i>> \in missed[c] \/ \E k \in DOMAIN Got(c) : Got(c)[k] = <<r, i>>
=============================================================================
