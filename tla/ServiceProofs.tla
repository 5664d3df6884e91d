---------------------------- MODULE ServiceProofs ----------------------------
(***************************************************************************)
(* What a connection gets, for any clients, boxes, batches and queues, and *)
(* however the service is stopped: only fixes inside a box it asked for,   *)
(* in the order of the flushes and none twice, and every fix inside its    *)
(* box unless its queue was full. And the exit code, for any components:   *)
(* an error that stopped the service is in it.                             *)
(*                                                                         *)
(* The argument. A filter, and the copy of it the broadcaster works with,  *)
(* is a box its subscriber asked for (Asked). The frames a connection has  *)
(* got lie before the one the broadcaster is at (Behind): those of earlier *)
(* rounds until it is visited, those before the current one during the     *)
(* visit, and those of the round after it. A subscriber leaves between     *)
(* broadcasts only, and takes its frames with it. Conversely, a frame the  *)
(* broadcaster has passed was got or missed by whoever then wanted it      *)
(* (Reached): while a broadcast has not come to it, a subscriber is among  *)
(* those left to visit, and the box loaded for it is its own if it had it  *)
(* before the round (Kept).                                                *)
(***************************************************************************)
EXTENDS Service, TLAPS, SequenceTheorems

USE HubAssumption

Frames == Nat \X Nat
Corners == Int \X Int \X Int \X Int

HubTypes ==
  /\ round \in Nat /\ round <= Len(Batches) /\ next \in Nat \ {0}
  /\ broadcast \in {"idle", "visit", "push"}
  /\ subs \subseteq Clients /\ left \subseteq Clients
  /\ broadcast = "idle" => left = {}
  /\ broadcast = "push" => cur \in Clients \ left
  /\ filter \in [Clients -> Corners \cup {NoBox}]
  /\ reading \in [Clients -> BOOLEAN]
  /\ asked \in [Clients -> SUBSET Boxes]
  /\ since \in [Clients -> (Boxes \cup {NoBox}) \X Nat]
  /\ missed \in [Clients -> SUBSET Frames]
  /\ queue \in [Clients -> Seq(Frames)] /\ sent \in [Clients -> Seq(Frames)]

Asked ==
  /\ \A c \in Clients : filter[c] # NoBox => \E b \in asked[c] : filter[c] = normalizeBox(b)
  /\ broadcast = "push" => \E b \in asked[cur] : box = normalizeBox(b)

\* f is no frame the broadcaster has yet to offer to c.
Passed(c, f) ==
  IF broadcast = "push" /\ c = cur THEN Before(f, <<round, next>>)
  ELSE f[1] <= round /\ (c \in left => f[1] < round)

Behind == \A c \in Clients : \A i \in DOMAIN Got(c) : Passed(c, Got(c)[i])

\* A client has a box only while it is subscribed; its filter is that box, and so is
\* the copy the broadcaster works with when the box was there before the round.
Kept ==
  /\ \A c \in Clients :
       /\ reading[c] => c \in subs
       /\ since[c][1] # NoBox => c \in subs /\ filter[c] = normalizeBox(since[c][1])
  /\ broadcast = "push" /\ since[cur][2] < round => box = filter[cur]

\* A connection has got f, or it was dropped for it.
Settled(c, f) == f \in missed[c] \/ \E k \in DOMAIN Got(c) : Got(c)[k] = f

\* The converse of Behind: a wanted frame that was passed was settled.
Reached ==
  \A c \in Clients : \A r \in since[c][2] + 1 .. round : \A i \in DOMAIN Batches[r] :
    since[c][1] # NoBox /\ Passed(c, <<r, i>>) /\ Spans(since[c][1], Batches[r][i]) =>
      Settled(c, <<r, i>>)

Inv == HubTypes /\ Asked /\ FramesAreWanted /\ Behind /\ FramesInOrder /\ Kept /\ Reached

-----------------------------------------------------------------------------
(* Boxes and queues.                                                       *)

\* A fix inside the normalised box is inside the box, whichever corners were sent.
LEMMA NormalizedSpans ==
  ASSUME NEW b \in Boxes, NEW p, inBox(normalizeBox(b), p)
  PROVE  Spans(b, p)
<1>1. b \in Corners
  BY DEF Corners
<1>2. b[1] \in Int /\ b[2] \in Int /\ b[3] \in Int /\ b[4] \in Int
  BY <1>1 DEF Corners
<1>3. /\ normalizeBox(b)[1] = IF b[1] > b[3] THEN b[3] ELSE b[1]
      /\ normalizeBox(b)[2] = IF b[2] > b[4] THEN b[4] ELSE b[2]
      /\ normalizeBox(b)[3] = IF b[1] > b[3] THEN b[1] ELSE b[3]
      /\ normalizeBox(b)[4] = IF b[2] > b[4] THEN b[2] ELSE b[4]
  BY DEF normalizeBox
<1>4. p[1] \in b[1] .. b[3] \cup b[3] .. b[1]
  BY <1>2, <1>3 DEF inBox
<1>5. p[2] \in b[2] .. b[4] \cup b[4] .. b[2]
  BY <1>2, <1>3 DEF inBox
<1> QED
  BY <1>4, <1>5 DEF Spans

\* A normalised box has four corners.
LEMMA NormalizedIsTyped ==
  ASSUME NEW b \in Boxes
  PROVE  normalizeBox(b) \in Corners
<1>1. b \in Corners
  BY DEF Corners
<1> QED
  BY <1>1 DEF normalizeBox, Corners

\* A frame appended to the queue is the last one the connection has got.
LEMMA AppendsLast ==
  ASSUME NEW S, NEW s \in Seq(S), NEW q \in Seq(S), NEW f \in S
  PROVE  s \o Append(q, f) = Append(s \o q, f)
<1>1. Append(q, f) = q \o <<f>> /\ <<f>> \in Seq(S)
  BY AppendIsConcat
<1>2. s \o q \in Seq(S) /\ Append(s \o q, f) = (s \o q) \o <<f>>
  BY ConcatProperties, AppendIsConcat
<1>3. (s \o q) \o <<f>> = s \o (q \o <<f>>)
  BY <1>1, ConcatAssociative
<1> QED
  BY <1>1, <1>2, <1>3

\* A frame moved from the queue to the wire stays where it is among them.
LEMMA MovesNothing ==
  ASSUME NEW S, NEW s \in Seq(S), NEW q \in Seq(S), q # <<>>
  PROVE  Append(s, Head(q)) \o Tail(q) = s \o q
<1>1. Head(q) \in S /\ Tail(q) \in Seq(S) /\ Len(Tail(q)) = Len(q) - 1
      /\ \A i \in 1 .. Len(Tail(q)) : Tail(q)[i] = q[i + 1]
  BY HeadTailProperties
<1>2. Append(s, Head(q)) \in Seq(S) /\ Append(s, Head(q)) = s \o <<Head(q)>>
      /\ <<Head(q)>> \in Seq(S)
  BY <1>1, AppendProperties, AppendIsConcat
<1>3. (s \o <<Head(q)>>) \o Tail(q) = s \o (<<Head(q)>> \o Tail(q))
  BY <1>1, <1>2, ConcatAssociative
<1>4. <<Head(q)>> \o Tail(q) = q
  BY <1>1
<1> QED
  BY <1>2, <1>3, <1>4

\* What a connection got is a sequence of frames.
LEMMA GotIsTyped ==
  ASSUME HubTypes, NEW c \in Clients
  PROVE  /\ Got(c) \in Seq(Frames) /\ DOMAIN Got(c) = 1 .. Len(Got(c)) /\ Len(Got(c)) \in Nat
         /\ \A i \in DOMAIN Got(c) :
              Got(c)[i] \in Frames /\ Got(c)[i][1] \in Nat /\ Got(c)[i][2] \in Nat
<1>1. sent[c] \in Seq(Frames) /\ queue[c] \in Seq(Frames)
  BY DEF HubTypes
<1>2. Got(c) \in Seq(Frames)
  BY <1>1, ConcatProperties DEF Got
<1>3. \A i \in DOMAIN Got(c) : Got(c)[i] \in Frames
  BY <1>2
<1>4. \A f \in Frames : f[1] \in Nat /\ f[2] \in Nat
  BY DEF Frames
<1> QED
  BY <1>2, <1>3, <1>4, LenProperties

-----------------------------------------------------------------------------
(* What a step of the service does to the hub.                             *)

\* Nothing of what the properties read.
Quiet ==
  /\ UNCHANGED <<broadcaster, filter, queue, asked, sent, since, missed>>
  /\ subs \subseteq subs' /\ subs' \subseteq Clients
  /\ reading' \in [Clients -> BOOLEAN]
  /\ \A c \in Clients : reading'[c] => reading[c] \/ c \in subs'

\* Of the service's steps, these reach the hub's state; the others leave it alone.
LEMMA StepOfHub ==
  ASSUME HubTypes, [Next]_vars
  PROVE  \/ Quiet
         \/ BeginBroadcast \/ EndBroadcast \/ Push \/ HubGone
         \/ \E c \in Clients : Visit(c) \/ TakeFrame(c) \/ Remove(c)
         \/ \E c \in Clients, b \in Boxes : Subscribe(c, b)
<1>1. ASSUME NEW c \in Clients,
             \/ Add(c) \/ WriteFrame(c) \/ ContextDone(c) \/ HubDone(c) \/ ReadFails(c)
             \/ WriteFails(c) \/ Accept(c)
      PROVE  Quiet
  <2>1. subs \cup {c} \subseteq Clients /\ reading \in [Clients -> BOOLEAN]
    BY DEF HubTypes
  <2>2. CASE Add(c)
    <3>1. \A d \in Clients : reading'[d] => reading[d] \/ d \in subs'
      BY <2>1, <2>2 DEF Add
    <3> QED
      BY <2>1, <2>2, <3>1 DEF Quiet, Add, history
  <2>3. CASE ReadFails(c)
    BY <2>1, <2>3 DEF Quiet, ReadFails
  <2>4. CASE WriteFrame(c) \/ ContextDone(c) \/ HubDone(c) \/ WriteFails(c) \/ Accept(c)
    BY <2>1, <2>4 DEF Quiet, WriteFrame, ContextDone, HubDone, Leaves, WriteFails, Accept, history
  <2> QED
    BY <1>1, <2>2, <2>3, <2>4
<1>2. CASE UNCHANGED hubVars \/ Shutdown
  BY <1>2 DEF HubTypes, Quiet, Shutdown, hubVars, connection, history
<1>3. CASE HubStep
  <2>1. CASE Broadcaster
    BY <2>1 DEF Broadcaster
  <2>2. ASSUME NEW c \in Clients, Client(c) \/ Accept(c)
        PROVE  \/ Quiet \/ TakeFrame(c) \/ Remove(c)
               \/ \E b \in Boxes : Subscribe(c, b)
    BY <1>1, <2>2 DEF Client, Serve, ReadLoop
  <2> QED
    BY <1>3, <2>1, <2>2 DEF HubStep
<1>4. CASE Component
  BY <1>2, <1>4 DEF Component, Fails, Stops, WriterStops, ListenFails, ServerShuts, ServerStops,
                    Acquire, Release
<1>5. CASE Signal \/ SeesSignal \/ GroupDone \/ GraceExpires \/ PoolCloses
  BY <1>2, <1>5 DEF Signal, SeesSignal, GroupDone, GraceExpires, PoolCloses
<1> QED
  BY <1>2, <1>3, <1>4, <1>5 DEF Next, Supervisor, vars

\* What a step does to the frames a connection has got.
LEMMA GotGrows ==
  ASSUME HubTypes, [Next]_vars, NEW c \in Clients
  PROVE  \/ Got(c)' = Got(c)
         \/ /\ Push /\ c = cur /\ inBox(box, Update(<<round, next>>))
            /\ Got(c)' = Append(Got(c), <<round, next>>)
         \/ Got(c)' = <<>> /\ (Remove(c) \/ HubGone)
<1>1. /\ sent \in [Clients -> Seq(Frames)] /\ queue \in [Clients -> Seq(Frames)]
      /\ sent[c] \in Seq(Frames) /\ queue[c] \in Seq(Frames)
  BY DEF HubTypes
<1>2. CASE UNCHANGED <<sent, queue>>
  BY <1>2 DEF Got
<1>3. CASE Push
  <2>1. <<round, next>> \in Frames
    BY DEF HubTypes, Frames
  <2>2. sent' = sent
    BY <1>3 DEF Push
  <2>3. CASE queue' = queue
    BY <1>2, <2>2, <2>3
  <2>4. CASE /\ inBox(box, Update(<<round, next>>))
             /\ queue' = [queue EXCEPT ![cur] = Append(@, <<round, next>>)]
    <3>1. CASE c = cur
      <4>1. queue'[c] = Append(queue[c], <<round, next>>)
        BY <1>1, <2>4, <3>1
      <4> QED
        BY <1>1, <1>3, <2>1, <2>2, <2>4, <3>1, <4>1, AppendsLast DEF Got
    <3>2. CASE c # cur
      BY <1>1, <2>2, <2>4, <3>2 DEF Got
    <3> QED
      BY <3>1, <3>2
  <2> QED
    BY <1>3, <2>3, <2>4 DEF Push
<1>4. ASSUME NEW d \in Clients, TakeFrame(d)
      PROVE  Got(c)' = Got(c)
  <2>1. CASE c = d
    <3>1. /\ queue[c] # <<>> /\ queue'[c] = Tail(queue[c])
          /\ sent'[c] = Append(sent[c], Head(queue[c]))
      BY <1>1, <1>4, <2>1 DEF TakeFrame
    <3> QED
      BY <1>1, <3>1, MovesNothing DEF Got
  <2>2. CASE c # d
    BY <1>1, <1>4, <2>2 DEF TakeFrame, Got
  <2> QED
    BY <2>1, <2>2
<1>5. ASSUME NEW d \in Clients, Remove(d)
      PROVE  Got(c)' = Got(c) \/ (Got(c)' = <<>> /\ Remove(c))
  <2>1. CASE c = d
    <3>1. queue'[c] = <<>> /\ sent'[c] = <<>>
      BY <1>1, <1>5, <2>1 DEF Remove
    <3>2. <<>> \o <<>> = <<>>
      OBVIOUS
    <3> QED
      BY <1>5, <2>1, <3>1, <3>2 DEF Got
  <2>2. CASE c # d
    BY <1>1, <1>5, <2>2 DEF Remove, Got
  <2> QED
    BY <2>1, <2>2
<1>6. CASE HubGone
  <2>1. queue'[c] = <<>> /\ sent'[c] = <<>>
    BY <1>6 DEF HubGone
  <2>2. <<>> \o <<>> = <<>>
    OBVIOUS
  <2> QED
    BY <1>6, <2>1, <2>2 DEF Got
<1>7. CASE Quiet \/ BeginBroadcast \/ EndBroadcast \/ (\E d \in Clients : Visit(d))
           \/ \E d \in Clients, b \in Boxes : Subscribe(d, b)
  BY <1>2, <1>7 DEF Quiet, BeginBroadcast, EndBroadcast, Visit, Subscribe, connection, history
<1> QED
  BY <1>3, <1>4, <1>5, <1>6, <1>7, StepOfHub

-----------------------------------------------------------------------------
(* The invariant, part by part.                                            *)

\* Every step keeps the types, and the lock: between broadcasts nobody is left to visit.
LEMMA StepIsTyped ==
  ASSUME HubTypes, [Next]_vars
  PROVE  HubTypes'
<1> USE DEF HubTypes
<1>1. CASE Quiet
  BY <1>1 DEF Quiet, broadcaster
<1>2. CASE BeginBroadcast \/ EndBroadcast
  BY <1>2 DEF BeginBroadcast, EndBroadcast, connection, history
<1>3. ASSUME NEW c \in Clients, Visit(c)
      PROVE  HubTypes'
  BY <1>3 DEF Visit, connection, history
<1>4. CASE Push
  <2>1. /\ UNCHANGED <<round, subs, left, filter, reading, asked, since, sent>>
        /\ cur \in Clients \ left
    BY <1>4 DEF Push
  <2>2. /\ next' \in Nat \ {0} /\ broadcast' \in {"visit", "push"}
        /\ broadcast' = "push" => cur' = cur
    <3>1. next \in Nat /\ broadcast = "push"
      BY <1>4 DEF Push
    <3>2. Advance
      BY <1>4 DEF Push
    <3> HIDE DEF HubTypes
    <3>3. CASE next < Len(Batches[round])
      BY <3>1, <3>2, <3>3 DEF Advance
    <3>4. CASE ~(next < Len(Batches[round]))
      BY <3>2, <3>4 DEF Advance
    <3> QED
      BY <3>3, <3>4
  <2>3. missed' \in [Clients -> SUBSET Frames]
    <3>1. /\ <<round, next>> \in Frames /\ missed \in [Clients -> SUBSET Frames]
          /\ missed[cur] \in SUBSET Frames
      BY <2>1 DEF Frames
    <3>2. \/ missed' = missed
          \/ missed' = [missed EXCEPT ![cur] = @ \cup {<<round, next>>}]
      BY <1>4 DEF Push
    <3> HIDE DEF HubTypes
    <3> QED
      BY <2>1, <3>1, <3>2
  <2>4. queue' \in [Clients -> Seq(Frames)]
    <3>1. <<round, next>> \in Frames /\ queue[cur] \in Seq(Frames)
      BY <2>1 DEF Frames
    <3>2. Append(queue[cur], <<round, next>>) \in Seq(Frames)
      BY <3>1, AppendProperties
    <3> QED
      BY <1>4, <3>2 DEF Push
  <2> QED
    BY <2>1, <2>2, <2>3, <2>4
<1>5. ASSUME NEW c \in Clients, TakeFrame(c)
      PROVE  HubTypes'
  <2>1. queue[c] \in Seq(Frames) /\ queue[c] # <<>> /\ sent[c] \in Seq(Frames)
    BY <1>5 DEF TakeFrame
  <2>2. /\ Tail(queue[c]) \in Seq(Frames)
        /\ Append(sent[c], Head(queue[c])) \in Seq(Frames)
    BY <2>1, HeadTailProperties, AppendProperties
  <2> QED
    BY <1>5, <2>2 DEF TakeFrame, broadcaster
<1>6. ASSUME NEW c \in Clients, Remove(c)
      PROVE  HubTypes'
  <2>1. <<>> \in Seq(Frames)
    OBVIOUS
  <2> QED
    BY <1>6, <2>1 DEF Remove, broadcaster
<1>7. CASE HubGone
  <2>1. <<>> \in Seq(Frames)
    OBVIOUS
  <2> QED
    BY <1>7, <2>1 DEF HubGone
<1>8. ASSUME NEW c \in Clients, NEW b \in Boxes, Subscribe(c, b)
      PROVE  HubTypes'
  BY <1>8, NormalizedIsTyped DEF Subscribe, broadcaster
<1> QED
  BY <1>1, <1>2, <1>3, <1>4, <1>5, <1>6, <1>7, <1>8, StepOfHub

\* A filter that is loaded was stored, and a stored one was asked for.
LEMMA StepIsAsked ==
  ASSUME HubTypes, Asked, [Next]_vars
  PROVE  Asked'
<1> USE DEF HubTypes, Asked
<1>1. CASE Quiet
  BY <1>1 DEF Quiet, broadcaster
<1>2. CASE BeginBroadcast \/ EndBroadcast
  BY <1>2 DEF BeginBroadcast, EndBroadcast, connection, history
<1>3. ASSUME NEW c \in Clients, Visit(c)
      PROVE  Asked'
  BY <1>3 DEF Visit, connection, history
<1>4. CASE Push
  BY <1>4 DEF Push, Advance
<1>5. ASSUME NEW c \in Clients, TakeFrame(c)
      PROVE  Asked'
  BY <1>5 DEF TakeFrame, broadcaster
<1>6. ASSUME NEW c \in Clients, Remove(c)
      PROVE  Asked'
  BY <1>6 DEF Remove, broadcaster
<1>7. CASE HubGone
  BY <1>7 DEF HubGone
<1>8. ASSUME NEW c \in Clients, NEW b \in Boxes, Subscribe(c, b)
      PROVE  Asked'
  <2>1. /\ asked' = [asked EXCEPT ![c] = @ \cup {b}]
        /\ filter' = [filter EXCEPT ![c] = normalizeBox(b)]
        /\ UNCHANGED <<broadcast, cur, box>>
    BY <1>8 DEF Subscribe, broadcaster
  <2>2. ASSUME NEW d \in Clients
        PROVE  asked[d] \subseteq asked'[d]
    BY <2>1
  <2>3. ASSUME NEW d \in Clients, filter'[d] # NoBox
        PROVE  \E e \in asked'[d] : filter'[d] = normalizeBox(e)
    <3>1. CASE d = c
      <4>1. b \in asked'[c] /\ filter'[c] = normalizeBox(b)
        BY <2>1
      <4> QED
        BY <3>1, <4>1
    <3>2. CASE d # c
      BY <2>1, <2>2, <2>3, <3>2
    <3> QED
      BY <3>1, <3>2
  <2>4. broadcast' = "push" => \E e \in asked'[cur'] : box' = normalizeBox(e)
    BY <2>1, <2>2
  <2> QED
    BY <2>3, <2>4
<1> QED
  BY <1>1, <1>2, <1>3, <1>4, <1>5, <1>6, <1>7, <1>8, StepOfHub

\* Boxes asked for are forgotten with the frames they brought only.
LEMMA AskedGrows ==
  ASSUME HubTypes, [Next]_vars, NEW c \in Clients, ~Remove(c), ~HubGone
  PROVE  asked[c] \subseteq asked'[c]
<1>1. asked \in [Clients -> SUBSET Boxes]
  BY DEF HubTypes
<1>2. CASE UNCHANGED asked
  BY <1>2
<1>3. ASSUME NEW d \in Clients, Remove(d)
      PROVE  asked[c] \subseteq asked'[c]
  BY <1>1, <1>3 DEF Remove
<1>4. ASSUME NEW d \in Clients, NEW b \in Boxes, Subscribe(d, b)
      PROVE  asked[c] \subseteq asked'[c]
  BY <1>1, <1>4 DEF Subscribe
<1> QED
  BY <1>2, <1>3, <1>4, StepOfHub
     DEF Quiet, BeginBroadcast, EndBroadcast, Visit, Push, TakeFrame, connection, history

\* Every frame queued lies in the filter the broadcaster loaded, and so in a box asked for.
LEMMA StepIsWanted ==
  ASSUME HubTypes, Asked, FramesAreWanted, [Next]_vars
  PROVE  FramesAreWanted'
<1> SUFFICES ASSUME NEW c \in Clients, NEW i \in DOMAIN (Got(c)'), NEW f, f = Got(c)'[i]
             PROVE  \E b \in asked'[c] : Spans(b, Update(f))
  BY DEF FramesAreWanted
<1>1. CASE Got(c)' = <<>>
  BY <1>1
<1>2. CASE Got(c)' = Got(c) /\ ~Remove(c) /\ ~HubGone
  BY <1>2, AskedGrows DEF FramesAreWanted
<1>3. CASE /\ Push /\ c = cur /\ inBox(box, Update(<<round, next>>))
           /\ Got(c)' = Append(Got(c), <<round, next>>)
  <2>1. asked' = asked /\ broadcast = "push"
    BY <1>3 DEF Push
  <2>2. Got(c) \in Seq(Frames) /\ <<round, next>> \in Frames
    BY GotIsTyped DEF HubTypes, Frames
  <2>3. /\ DOMAIN (Got(c)') = 1 .. Len(Got(c)) + 1 /\ DOMAIN Got(c) = 1 .. Len(Got(c))
        /\ Len(Got(c)) \in Nat
        /\ \A k \in 1 .. Len(Got(c)) : Got(c)'[k] = Got(c)[k]
        /\ Got(c)'[Len(Got(c)) + 1] = <<round, next>>
    BY <1>3, <2>2, AppendProperties, LenProperties
  <2>4. CASE i \in DOMAIN Got(c)
    BY <2>1, <2>3, <2>4 DEF FramesAreWanted
  <2>5. CASE i = Len(Got(c)) + 1
    <3>1. PICK b \in asked[c] : box = normalizeBox(b)
      BY <1>3, <2>1 DEF Asked
    <3>2. b \in Boxes
      BY DEF HubTypes
    <3>3. f = <<round, next>>
      BY <2>3, <2>5
    <3>4. Spans(b, Update(f))
      BY <1>3, <3>1, <3>2, <3>3, NormalizedSpans
    <3> QED
      BY <2>1, <3>1, <3>4
  <2> QED
    BY <2>3, <2>4, <2>5
<1>4. CASE Got(c)' = Got(c) /\ (Remove(c) \/ HubGone)
  <2>1. queue'[c] = <<>> /\ sent'[c] = <<>>
    BY <1>4 DEF HubTypes, Remove, HubGone
  <2>2. Got(c)' = <<>>
    <3>1. <<>> \o <<>> = <<>>
      OBVIOUS
    <3> QED
      BY <2>1, <3>1 DEF Got
  <2> QED
    BY <1>1, <2>2
<1> QED
  BY <1>1, <1>2, <1>3, <1>4, GotGrows

-----------------------------------------------------------------------------
(* Order.                                                                  *)

\* A frame the broadcaster has passed stays passed.
LEMMA PassedStays ==
  ASSUME HubTypes, [Next]_vars, NEW c \in Clients, ~HubGone,
         NEW f \in Frames, Passed(c, f)
  PROVE  Passed(c, f)'
<1>1. f[1] \in Nat /\ f[2] \in Nat
  BY DEF Frames
<1> USE <1>1 DEF HubTypes, Passed, Before
<1>2. CASE UNCHANGED broadcaster
  BY <1>2 DEF broadcaster
<1>3. CASE BeginBroadcast
  BY <1>3 DEF BeginBroadcast
<1>4. CASE EndBroadcast
  BY <1>4 DEF EndBroadcast
<1>5. ASSUME NEW d \in Clients, Visit(d)
      PROVE  Passed(c, f)'
  BY <1>5 DEF Visit
<1>6. CASE Push
  <2>1. /\ round' = round /\ left' = left /\ broadcast = "push"
        /\ \/ next' = next + 1 /\ broadcast' = broadcast /\ cur' = cur
           \/ broadcast' = "visit"
    BY <1>6 DEF Push, Advance
  <2>2. round \in Nat /\ next \in Nat /\ cur \notin left
    BY <2>1
  <2>3. CASE broadcast' = "visit"
    BY <1>1, <2>1, <2>2, <2>3
  <2>4. CASE next' = next + 1 /\ broadcast' = broadcast /\ cur' = cur
    BY <1>1, <2>1, <2>2, <2>4
  <2> QED
    BY <2>1, <2>3, <2>4
<1> QED
  BY <1>2, <1>3, <1>4, <1>5, <1>6, StepOfHub DEF Quiet, TakeFrame, Remove, Subscribe

\* The frame just offered is passed too, and those before it stay so.
LEMMA StepStaysBehind ==
  ASSUME HubTypes, Behind, [Next]_vars
  PROVE  Behind'
<1> SUFFICES ASSUME NEW c \in Clients, NEW i \in DOMAIN (Got(c)'), NEW f, f = Got(c)'[i]
             PROVE  Passed(c, f)'
  BY DEF Behind, Passed, Before
<1>1. CASE Got(c)' = <<>>
  BY <1>1
<1>2. CASE Got(c)' = Got(c) /\ ~HubGone
  <2>1. f \in Frames /\ Passed(c, f)
    BY <1>2, GotIsTyped DEF Behind
  <2> QED
    BY <1>2, <2>1, PassedStays
<1>3. CASE Push /\ c = cur /\ Got(c)' = Append(Got(c), <<round, next>>)
  <2>1. Got(c) \in Seq(Frames) /\ <<round, next>> \in Frames /\ ~HubGone
    BY <1>3, GotIsTyped DEF HubTypes, Frames, Push, Advance, HubGone
  <2>2. /\ DOMAIN (Got(c)') = 1 .. Len(Got(c)) + 1 /\ DOMAIN Got(c) = 1 .. Len(Got(c))
        /\ Len(Got(c)) \in Nat
        /\ \A k \in 1 .. Len(Got(c)) : Got(c)'[k] = Got(c)[k]
        /\ Got(c)'[Len(Got(c)) + 1] = <<round, next>>
    BY <1>3, <2>1, AppendProperties, LenProperties
  <2>3. CASE i \in DOMAIN Got(c)
    <3>1. f = Got(c)[i] /\ f \in Frames
      BY <2>2, <2>3, GotIsTyped
    <3>2. Passed(c, f)
      BY <2>3, <3>1 DEF Behind
    <3> QED
      BY <2>1, <3>1, <3>2, PassedStays
  <2>4. CASE i = Len(Got(c)) + 1
    <3>1. f[1] = round /\ f[2] = next
      BY <2>2, <2>4
    <3>2. /\ round' = round /\ left' = left /\ cur \notin left
          /\ round \in Nat /\ next \in Nat
          /\ \/ next' = next + 1 /\ broadcast' = "push" /\ cur' = cur
             \/ broadcast' = "visit"
      BY <1>3 DEF Push, Advance, HubTypes
    <3>3. CASE broadcast' = "visit"
      BY <1>3, <3>1, <3>2, <3>3 DEF Passed
    <3>4. CASE next' = next + 1 /\ broadcast' = "push" /\ cur' = cur
      BY <1>3, <3>1, <3>2, <3>4 DEF Passed, Before
    <3> QED
      BY <3>2, <3>3, <3>4
  <2>5. i \in DOMAIN Got(c) \/ i = Len(Got(c)) + 1
    BY <2>2
  <2> QED
    BY <2>3, <2>4, <2>5
<1>4. CASE HubGone
  <2>1. queue'[c] = <<>> /\ sent'[c] = <<>> /\ <<>> \o <<>> = <<>>
    BY <1>4 DEF HubGone
  <2> QED
    BY <1>1, <2>1 DEF Got
<1> QED
  BY <1>1, <1>2, <1>3, <1>4, GotGrows

\* A frame is queued behind those it comes after.
LEMMA StepKeepsOrder ==
  ASSUME HubTypes, Behind, FramesInOrder, [Next]_vars
  PROVE  FramesInOrder'
<1> SUFFICES ASSUME NEW c \in Clients,
                    NEW i \in DOMAIN (Got(c)'), NEW j \in DOMAIN (Got(c)'), i < j
             PROVE  Before(Got(c)'[i], Got(c)'[j])
  BY DEF FramesInOrder, Before
<1>1. CASE Got(c)' = <<>>
  BY <1>1
<1>2. CASE Got(c)' = Got(c)
  BY <1>2 DEF FramesInOrder
<1>3. CASE Push /\ c = cur /\ Got(c)' = Append(Got(c), <<round, next>>)
  <2>1. Got(c) \in Seq(Frames) /\ <<round, next>> \in Frames
    BY GotIsTyped DEF HubTypes, Frames
  <2>2. /\ DOMAIN (Got(c)') = 1 .. Len(Got(c)) + 1 /\ DOMAIN Got(c) = 1 .. Len(Got(c))
        /\ Len(Got(c)) \in Nat
        /\ \A k \in 1 .. Len(Got(c)) : Got(c)'[k] = Got(c)[k]
        /\ Got(c)'[Len(Got(c)) + 1] = <<round, next>>
    BY <1>3, <2>1, AppendProperties, LenProperties
  <2>3. i \in DOMAIN Got(c)
    BY <2>2
  <2>4. CASE j \in DOMAIN Got(c)
    BY <2>2, <2>3, <2>4 DEF FramesInOrder
  <2>5. CASE j = Len(Got(c)) + 1
    <3>1. Before(Got(c)[i], <<round, next>>)
      BY <1>3, <2>3 DEF Behind, Passed, Push
    <3> QED
      BY <2>2, <2>3, <2>5, <3>1
  <2> QED
    BY <2>2, <2>4, <2>5
<1> QED
  BY <1>1, <1>2, <1>3, GotGrows

-----------------------------------------------------------------------------
(* Arrival.                                                                *)

\* A fix inside the box is inside the normalised box, the other way about.
LEMMA SpansNormalized ==
  ASSUME NEW b \in Boxes, NEW p, Spans(b, p)
  PROVE  inBox(normalizeBox(b), p)
<1>1. b[1] \in Int /\ b[2] \in Int /\ b[3] \in Int /\ b[4] \in Int
  BY DEF Corners
<1>2. /\ normalizeBox(b)[1] = IF b[1] > b[3] THEN b[3] ELSE b[1]
      /\ normalizeBox(b)[2] = IF b[2] > b[4] THEN b[4] ELSE b[2]
      /\ normalizeBox(b)[3] = IF b[1] > b[3] THEN b[1] ELSE b[3]
      /\ normalizeBox(b)[4] = IF b[2] > b[4] THEN b[2] ELSE b[4]
  BY DEF normalizeBox
<1>3. p[1] \in normalizeBox(b)[1] .. normalizeBox(b)[3]
  BY <1>1, <1>2 DEF Spans
<1>4. p[2] \in normalizeBox(b)[2] .. normalizeBox(b)[4]
  BY <1>1, <1>2 DEF Spans
<1> QED
  BY <1>3, <1>4 DEF inBox

\* The box of a subscriber, its filter and the broadcaster's copy stay the same box.
LEMMA StepIsKept ==
  ASSUME HubTypes, Kept, [Next]_vars
  PROVE  Kept'
<1> USE DEF HubTypes, Kept
<1>1. CASE Quiet
  BY <1>1 DEF Quiet, broadcaster
<1>2. CASE BeginBroadcast \/ EndBroadcast
  BY <1>2 DEF BeginBroadcast, EndBroadcast, connection, history
<1>3. ASSUME NEW c \in Clients, Visit(c)
      PROVE  Kept'
  BY <1>3 DEF Visit, connection, history
<1>4. CASE Push
  BY <1>4 DEF Push, Advance
<1>5. ASSUME NEW c \in Clients, TakeFrame(c)
      PROVE  Kept'
  BY <1>5 DEF TakeFrame, broadcaster
<1>6. ASSUME NEW c \in Clients, Remove(c)
      PROVE  Kept'
  BY <1>6 DEF Remove, broadcaster
<1>7. CASE HubGone
  BY <1>7 DEF HubGone
<1>8. ASSUME NEW c \in Clients, NEW b \in Boxes, Subscribe(c, b)
      PROVE  Kept'
  BY <1>8 DEF Subscribe, broadcaster
<1> QED
  BY <1>1, <1>2, <1>3, <1>4, <1>5, <1>6, <1>7, <1>8, StepOfHub

\* What was settled stays so while the connection lasts.
LEMMA StaysSettled ==
  ASSUME HubTypes, [Next]_vars, NEW c \in Clients, ~Remove(c), ~HubGone,
         NEW f, Settled(c, f)
  PROVE  Settled(c, f)'
<1>1. missed[c] \subseteq missed'[c]
  <2>1. missed \in [Clients -> SUBSET Frames]
    BY DEF HubTypes
  <2>2. CASE UNCHANGED missed
    BY <2>2
  <2>3. CASE Push
    BY <2>1, <2>3 DEF Push
  <2>4. ASSUME NEW d \in Clients, Remove(d)
        PROVE  missed[c] \subseteq missed'[c]
    BY <2>1, <2>4 DEF Remove
  <2> QED
    BY <2>2, <2>3, <2>4, StepOfHub
       DEF Quiet, BeginBroadcast, EndBroadcast, Visit, TakeFrame, Subscribe, history
<1>2. ASSUME NEW k \in DOMAIN Got(c)
      PROVE  k \in DOMAIN (Got(c)') /\ Got(c)'[k] = Got(c)[k]
  <2>1. CASE Got(c)' = Got(c)
    BY <2>1
  <2>2. CASE Push /\ Got(c)' = Append(Got(c), <<round, next>>)
    <3>1. /\ Got(c) \in Seq(Frames) /\ <<round, next>> \in Frames
          /\ DOMAIN Got(c) = 1 .. Len(Got(c)) /\ Len(Got(c)) \in Nat
      BY GotIsTyped DEF HubTypes, Frames
    <3> QED
      BY <2>2, <3>1, AppendProperties
  <2> QED
    BY <2>1, <2>2, GotGrows
<1> QED
  BY <1>1, <1>2 DEF Settled

\* Places in the batches of the rounds so far are numbers.
LEMMA PlacesAreFrames ==
  ASSUME NEW r \in 1 .. Len(Batches), NEW i \in DOMAIN Batches[r]
  PROVE  i \in 1 .. Len(Batches[r]) /\ Len(Batches[r]) \in Nat /\ <<r, i>> \in Frames
<1>1. Batches[r] \in Seq(Int \X Int)
  OBVIOUS
<1> QED
  BY <1>1 DEF Frames

\* A frame put on the queue is the last one got.
LEMMA FrameAppended ==
  ASSUME HubTypes, NEW c \in Clients, NEW f \in Frames,
         sent' = sent, queue'[c] = Append(queue[c], f)
  PROVE  Got(c)' = Append(Got(c), f)
<1>1. sent[c] \in Seq(Frames) /\ queue[c] \in Seq(Frames)
  BY DEF HubTypes
<1>2. sent'[c] = sent[c]
  OBVIOUS
<1>3. \A s, q, r \in Seq(Frames) : r = Append(q, f) => s \o r = Append(s \o q, f)
  BY AppendsLast
<1>4. queue'[c] \in Seq(Frames)
  BY <1>1, AppendProperties
<1> QED
  BY <1>1, <1>2, <1>3, <1>4 DEF Got

\* The frame a push is about is got or missed by it, if it is wanted.
LEMMA PushSettles ==
  ASSUME HubTypes, Push, NEW c \in Clients, c = cur,
         NEW f, f = <<round, next>>, inBox(box, Update(f))
  PROVE  Settled(c, f)'
<1>1. /\ missed \in [Clients -> SUBSET Frames] /\ queue \in [Clients -> Seq(Frames)]
      /\ f \in Frames /\ sent[c] \in Seq(Frames) /\ queue[c] \in Seq(Frames)
  BY DEF HubTypes, Frames
<1>2. CASE missed' = [missed EXCEPT ![cur] = @ \cup {f}]
  BY <1>1, <1>2 DEF Settled
<1>3. CASE queue' = [queue EXCEPT ![cur] = Append(@, f)]
  <2>1. Got(c)' = Append(Got(c), f)
    <3>1. queue'[c] = Append(queue[c], f) /\ sent' = sent
      BY <1>1, <1>3 DEF Push
    <3> QED
      BY <1>1, <3>1, FrameAppended
  <2>2. Got(c) \in Seq(Frames) /\ Len(Got(c)) \in Nat
    BY GotIsTyped
  <2>3. Len(Got(c)) + 1 \in DOMAIN (Got(c)') /\ Got(c)'[Len(Got(c)) + 1] = f
    BY <1>1, <2>1, <2>2, AppendProperties
  <2> QED
    BY <2>3 DEF Settled
<1> QED
  BY <1>2, <1>3 DEF Push

\* A wanted frame that a step passes is settled by it; one passed before stays so.
LEMMA StepIsReached ==
  ASSUME HubTypes, Kept, Reached, [Next]_vars
  PROVE  Reached'
<1> SUFFICES ASSUME NEW c \in Clients, NEW r \in since'[c][2] + 1 .. round',
                    NEW i \in DOMAIN Batches[r], NEW f, f = <<r, i>>,
                    since'[c][1] # NoBox, Passed(c, f)', Spans(since'[c][1], Batches[r][i])
             PROVE  Settled(c, f)'
  BY DEF Reached
<1>a. HubTypes' /\ since \in [Clients -> (Boxes \cup {NoBox}) \X Nat]
  BY StepIsTyped DEF HubTypes
<1>b. /\ r \in 1 .. Len(Batches) /\ r \in Nat /\ f \in Frames /\ i \in Nat
      /\ since'[c][2] \in Nat /\ since'[c][2] < r /\ r <= round' /\ round \in Nat
  <2>1. /\ since' \in [Clients -> (Boxes \cup {NoBox}) \X Nat]
        /\ round' \in Nat /\ round' <= Len(Batches) /\ round \in Nat
    BY <1>a DEF HubTypes
  <2>2. since'[c][2] \in Nat
    BY <2>1
  <2>3. r \in Nat /\ since'[c][2] < r /\ r <= round'
    BY <2>1, <2>2
  <2>4. r \in 1 .. Len(Batches)
    BY <2>1, <2>2, <2>3
  <2>5. f \in Frames /\ i \in Nat
    BY <2>4, PlacesAreFrames
  <2> QED
    BY <2>1, <2>2, <2>3, <2>4, <2>5
<1>c. f[1] = r /\ f[2] = i
  OBVIOUS
<1>1. CASE HubGone \/ Remove(c)
  <2>1. since'[c] = <<NoBox, 0>>
    BY <1>a, <1>1 DEF HubGone, Remove
  <2> QED
    BY <2>1
<1>2. CASE ~HubGone /\ ~Remove(c)
  <2>1. ASSUME since'[c] = since[c], r <= round, Passed(c, f)
        PROVE  Settled(c, f)'
    <3>1. r \in since[c][2] + 1 .. round
      BY <1>b, <2>1
    <3>2. Settled(c, f)
      BY <2>1, <3>1 DEF Reached
    <3> QED
      BY <1>2, <3>2, StaysSettled
  <2>2. CASE UNCHANGED <<since, broadcaster>>
    BY <1>b, <2>1, <2>2 DEF Passed, Before, broadcaster
  <2>3. CASE EndBroadcast
    BY <1>b, <1>c, <2>1, <2>3 DEF EndBroadcast, Passed, history
  <2>4. CASE BeginBroadcast
    <3>1. since' = since /\ round' = round + 1
      BY <2>4 DEF BeginBroadcast, history
    <3>2. CASE r = round'
      <4>1. Batches[round + 1] # <<>> /\ left' = subs /\ broadcast' = "visit"
        BY <3>1, <3>2, <2>4 DEF BeginBroadcast
      <4>2. c \in subs
        BY <3>1 DEF Kept
      <4> QED
        BY <1>c, <3>2, <4>1, <4>2 DEF Passed, HubTypes
    <3>3. CASE r <= round
      BY <1>c, <2>1, <2>4, <3>1, <3>3 DEF BeginBroadcast, Passed, HubTypes
    <3> QED
      BY <1>b, <3>1, <3>2, <3>3
  <2>5. ASSUME NEW d \in Clients, Visit(d)
        PROVE  Settled(c, f)'
    <3>1. since' = since /\ round' = round /\ left' = left \ {d} /\ broadcast = "visit"
      BY <2>5 DEF Visit, history
    <3>2. CASE d = c /\ r = round
      <4>1. filter[c] # NoBox
        <5>1. since[c][1] \in Boxes /\ filter[c] = normalizeBox(since[c][1])
          BY <1>a, <3>1 DEF Kept
        <5>2. normalizeBox(since[c][1]) \in Corners
          BY <5>1, NormalizedIsTyped
        <5> QED
          BY <5>1, <5>2 DEF Corners
      <4>2. broadcast' = "push" /\ cur' = c /\ next' = 1
        BY <2>5, <3>2, <4>1 DEF Visit
      <4>3. i >= 1
        BY <1>b, PlacesAreFrames
      <4> QED
        BY <1>b, <1>c, <3>1, <3>2, <4>2, <4>3 DEF Passed, Before
    <3>3. CASE d # c \/ r # round
      <4>1. Passed(c, f)
        BY <1>b, <1>c, <2>5, <3>1, <3>3 DEF Visit, Passed, Before, HubTypes
      <4> QED
        BY <1>b, <2>1, <3>1, <4>1
    <3> QED
      BY <3>2, <3>3
  <2>6. CASE Push
    <3>1. /\ since' = since /\ round' = round /\ left' = left /\ broadcast = "push"
          /\ cur \in Clients \ left /\ Advance
      BY <2>6 DEF Push, HubTypes
    <3>2. CASE c = cur /\ r = round /\ i = next
      <4>1. since[c][2] < round
        BY <1>a, <1>b, <3>1, <3>2
      <4>2. since[c][1] \in Boxes /\ box = normalizeBox(since[c][1])
        BY <1>a, <3>1, <3>2, <4>1 DEF Kept
      <4>3. inBox(box, Update(f))
        BY <3>1, <4>2, SpansNormalized DEF Update
      <4> QED
        BY <2>6, <3>2, <4>3, PushSettles
    <3>3. CASE ~(c = cur /\ r = round /\ i = next)
      <4>1. Passed(c, f)
        <5>1. CASE c # cur
          BY <1>b, <1>c, <3>1, <5>1 DEF Advance, Passed
        <5>2. CASE c = cur /\ r # round
          BY <1>b, <1>c, <3>1, <5>2 DEF Passed, Before, HubTypes
        <5>3. CASE c = cur /\ r = round /\ i < next
          BY <1>b, <1>c, <3>1, <5>3 DEF Passed, Before
        <5>4. CASE c = cur /\ r = round /\ i > next
          <6>1. i <= Len(Batches[r]) /\ Len(Batches[r]) \in Nat /\ next \in Nat
            BY <1>b, PlacesAreFrames DEF HubTypes
          <6>2. broadcast' = "push" /\ cur' = cur /\ next' = next + 1
            BY <1>b, <3>1, <5>4, <6>1 DEF Advance
          <6> QED
            BY <1>b, <1>c, <3>1, <5>4, <6>1, <6>2 DEF Passed, Before, HubTypes
        <5> QED
          BY <1>b, <3>3, <5>1, <5>2, <5>3, <5>4 DEF HubTypes
      <4> QED
        BY <1>b, <2>1, <3>1, <4>1
    <3> QED
      BY <3>2, <3>3
  <2>7. ASSUME NEW d \in Clients, NEW b \in Boxes, Subscribe(d, b)
        PROVE  Settled(c, f)'
    <3>1. UNCHANGED broadcaster /\ since' = [since EXCEPT ![d] = <<b, round>>]
      BY <2>7 DEF Subscribe
    <3>2. CASE d = c
      <4>1. since'[c][2] = round /\ round' = round /\ round \in Nat
        BY <1>a, <3>1, <3>2 DEF broadcaster, HubTypes
      <4> QED
        BY <1>b, <4>1
    <3>3. CASE d # c
      BY <1>a, <1>b, <2>1, <3>1, <3>3 DEF Passed, Before, broadcaster
    <3> QED
      BY <3>2, <3>3
  <2>8. ASSUME NEW d \in Clients, Remove(d)
        PROVE  Settled(c, f)'
    <3>1. since'[c] = since[c] /\ UNCHANGED broadcaster
      BY <1>2, <1>a, <2>8 DEF Remove
    <3> QED
      BY <1>b, <2>1, <3>1 DEF Passed, Before, broadcaster
  <2> QED
    BY <1>2, <2>2, <2>3, <2>4, <2>5, <2>6, <2>7, <2>8, StepOfHub DEF Quiet, TakeFrame, history
<1> QED
  BY <1>1, <1>2

-----------------------------------------------------------------------------
\* Nothing has been asked for or got at the start.
LEMMA InitHolds ==
  ASSUME Init
  PROVE  Inv
<1>1. HubInit(cast.clients)
  BY DEF Init
<1>2. <<>> \in Seq(Frames) /\ <<>> \o <<>> = <<>>
  OBVIOUS
<1>3. HubTypes
  BY <1>1, <1>2 DEF HubInit, HubTypes
<1>4. Asked
  BY <1>1 DEF HubInit, Asked
<1>5. \A c \in Clients : Got(c) = <<>>
  BY <1>1, <1>2 DEF HubInit, Got
<1>6. FramesAreWanted /\ Behind /\ FramesInOrder
  BY <1>5 DEF FramesAreWanted, Behind, FramesInOrder
<1>7. Kept /\ Reached
  BY <1>1 DEF HubInit, Kept, Reached
<1> QED
  BY <1>3, <1>4, <1>6, <1>7 DEF Inv

\* The parts together are inductive.
LEMMA StepHolds ==
  ASSUME Inv, [Next]_vars
  PROVE  Inv'
  BY StepIsTyped, StepIsAsked, StepIsWanted, StepStaysBehind, StepKeepsOrder, StepIsKept,
     StepIsReached DEF Inv

\* Whatever a client swaps while broadcasts are under way, and however the service
\* is stopped, a connection only gets fixes inside a box it asked for.
THEOREM FramesAreWantedHolds == Spec => []FramesAreWanted
<1>1. Inv => FramesAreWanted
  BY DEF Inv
<1> QED
  BY <1>1, InitHolds, StepHolds, PTL DEF Spec

\* A connection gets fixes in the order of the flushes, none of them twice.
THEOREM FramesInOrderHolds == Spec => []FramesInOrder
<1>1. Inv => FramesInOrder
  BY DEF Inv
<1> QED
  BY <1>1, InitHolds, StepHolds, PTL DEF Spec

\* A connected client whose filter was in place before a broadcast began gets every
\* fix of it inside the filter, or it was dropped for a full queue and counted.
THEOREM FramesReachSubscribersHolds == Spec => []FramesReachSubscribers
<1>1. Inv => FramesReachSubscribers
  <2> SUFFICES ASSUME Inv, NEW c \in subs, NEW r \in since[c][2] + 1 .. round,
                      NEW i \in DOMAIN Batches[r], since[c][1] # NoBox, Finished(r),
                      Spans(since[c][1], Batches[r][i])
               PROVE  Settled(c, <<r, i>>)
    BY DEF FramesReachSubscribers, Settled
  <2>1. c \in Clients /\ Passed(c, <<r, i>>)
    <3>1. c \in Clients /\ round \in Nat /\ since[c][2] \in Nat /\ (broadcast = "idle" => left = {})
      BY DEF Inv, HubTypes
    <3>2. r \in Nat /\ r <= round
      BY <3>1
    <3>3. <<r, i>>[1] = r
      OBVIOUS
    <3> QED
      BY <3>1, <3>2, <3>3 DEF Finished, Passed, Before
  <2> QED
    BY <2>1 DEF Inv, Reached
<1> QED
  BY <1>1, InitHolds, StepHolds, PTL DEF Spec

-----------------------------------------------------------------------------
(* Exit codes.                                                             *)

\* What cancelled the context was recorded before anything it made others return.
\* Once supervise has returned its code is final, and no error can come after a
\* clean one: the context was cancelled before, or nothing is left to return.
Recorded ==
  /\ ~gctx => first = "nil" /\ cause = "none"
  /\ cause = "error" => first = "error"
  /\ sup \in {"closing", "exited"} =>
       /\ cause = "error" => code # exitOK
       /\ code = exitOK => gctx \/ AllReturned

\* A component returns its context's error only once the context is cancelled.
LEMMA ReturnsRecorded ==
  ASSUME Recorded, UNCHANGED <<sup, code, cast>>,
         NEW k \in Components, NEW r \in {"nil", "canceled", "error"}, Return(k, r),
         r = "canceled" => gctx
  PROVE  Recorded'
<1>1. ~AllReturned
  BY DEF Return, AllReturned
<1>2. CASE r # "nil" /\ first = "nil"
  BY <1>1, <1>2 DEF Return, Recorded
<1>3. CASE UNCHANGED <<first, gctx, cause>>
  BY <1>1, <1>3 DEF Recorded
<1> QED
  BY <1>2, <1>3 DEF Return

\* The first error stays on record until the supervisor classifies it.
LEMMA StepIsRecorded ==
  ASSUME Recorded, [Next]_vars
  PROVE  Recorded'
<1>1. CASE UNCHANGED <<group, sup, code, cast>>
  BY <1>1 DEF Recorded, AllReturned, Components, group
<1>2. CASE HubStep \/ UNCHANGED vars
  <2>1. UNCHANGED cast
    BY DEF Next, vars
  <2> QED
    BY <1>1, <1>2, <2>1 DEF HubStep, process, vars
<1>3. CASE UNCHANGED cast /\ Component
  <2>1. ASSUME NEW k \in cast.others, Fails(k) \/ Stops(k)
        PROVE  Recorded'
    BY <1>3, <2>1, ReturnsRecorded DEF Fails, Stops, process, Components
  <2>2. CASE WriterStops
    BY <1>3, <2>2, ReturnsRecorded DEF WriterStops, process, Components
  <2>3. CASE ListenFails
    BY <1>3, <2>3, ReturnsRecorded DEF ListenFails, process, Components
  <2>4. CASE ServerShuts
    BY <1>1, <1>3, <2>4 DEF ServerShuts, process
  <2>5. CASE ServerStops
    BY <1>3, <2>5, ReturnsRecorded DEF ServerStops, process, Components
  <2>6. ASSUME NEW k \in Components, Acquire(k) \/ Release(k)
        PROVE  Recorded'
    BY <1>1, <1>3, <2>6 DEF Acquire, Release
  <2> QED
    BY <1>3, <2>1, <2>2, <2>3, <2>4, <2>5, <2>6 DEF Component
<1>4. CASE UNCHANGED cast /\ Signal
  BY <1>4 DEF Signal, Recorded
<1>5. CASE UNCHANGED cast /\ SeesSignal
  BY <1>5 DEF SeesSignal, group, Recorded
<1>6. CASE UNCHANGED cast /\ GroupDone
  BY <1>6 DEF GroupDone, classify, exitOK, exitFatalError, group, Recorded, AllReturned, Components
<1>7. CASE UNCHANGED cast /\ GraceExpires
  BY <1>7 DEF GraceExpires, exitOK, exitShutdownTO, group, Recorded
<1>8. CASE UNCHANGED cast /\ PoolCloses
  BY <1>8 DEF PoolCloses, group, Recorded, AllReturned, Components
<1> QED
  BY <1>2, <1>3, <1>4, <1>5, <1>6, <1>7, <1>8 DEF Next, Supervisor

\* An error that stopped the service is in its exit code, whatever components it
\* runs, and whatever those it cancelled return.
THEOREM ErrorIsReportedHolds == Spec => []ErrorIsReported
<1>1. Init => Recorded
  BY DEF Init, Recorded
<1>2. Recorded => ErrorIsReported
  BY DEF Recorded, ErrorIsReported
<1> QED
  BY <1>1, <1>2, StepIsRecorded, PTL DEF Spec
=============================================================================
