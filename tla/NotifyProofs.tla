---------------------------- MODULE NotifyProofs ----------------------------
(***************************************************************************)
(* For any notifications, adapters, capacities and bounds: the listener    *)
(* and the router are well typed, and a notification that was handled is   *)
(* settled with every adapter that wants it. The argument: while one is    *)
(* being handled, the adapters before the one at hand are settled          *)
(* (Served), and the router only goes on from an adapter that took the     *)
(* event or whose dead letter it wrote, unless an insert failed or the     *)
(* context was cancelled, which takes a stop (Cuts).                       *)
(***************************************************************************)
EXTENDS Notify, TLAPS, WellFoundedInduction, SequenceTheorems

USE NotifyAssumption

Handling == rt \in {"attempt", "backoff", "record"}

\* Whatever is under way was heard.
Flow ==
  /\ wire \in Seq(heard) /\ out \in Seq(heard)
  /\ held \in heard \cup {NoNote} /\ event \in heard \cup {NoNote}

Retrying == rt = "backoff" => attempt < MaxAttempts

Typed == TypeOK /\ Flow /\ Retrying

\* What is recorded was exhausted; a cancelled context took a stop.
Cuts ==
  /\ cancelled => stops > 0
  /\ rt = "record" /\ ~cancelled => Pair \in exhausted

Settled(n, k) == Matches(k, n) => <<k, n>> \in delivered \cup dead

Undisturbed == stops = 0 /\ faults = 0

\* The adapters before the one at hand are settled.
Served == Undisturbed /\ Handling => \A k \in DOMAIN Adapters : k < at => Settled(event, k)

Inv == Typed /\ Cuts /\ Served /\ HandledIsSettled

-----------------------------------------------------------------------------
(* The next adapter.                                                       *)

\* A set of naturals that is not empty has a least element.
LEMMA LeastNat ==
  ASSUME NEW S \in SUBSET Nat, S # {}
  PROVE  \E j \in S : \A i \in S : j <= i
<1>1. PICK j \in S : \A i \in S : <<i, j>> \notin OpToRel(<, Nat)
  BY WFMin, NatLessThanWellFounded, Zenon
<1>2. \A i \in S : ~(i < j)
  BY <1>1, Zenon DEF OpToRel
<1> QED
  BY <1>2

\* After adapter k the router is done with n, or at the next that wants it.
LEMMA OfferGoesOn ==
  ASSUME NEW k \in Nat, NEW n \in Notes, Offer(k, n)
  PROVE  \/ /\ \A j \in DOMAIN Adapters : j > k => ~Matches(j, n)
            /\ rt' = "select" /\ event' = NoNote /\ at' = 0 /\ attempt' = 0
            /\ handled' = handled \cup {n}
         \/ /\ rt' = "attempt" /\ event' = n /\ attempt' = 1 /\ handled' = handled
            /\ at' \in DOMAIN Adapters /\ at' > k
            /\ \A j \in DOMAIN Adapters : j > k /\ j < at' => ~Matches(j, n)
<1>0. DOMAIN Adapters \subseteq Nat
  OBVIOUS
<1>1. CASE Matching(k, n) = {}
  <2>1. \A j \in DOMAIN Adapters : j > k => ~Matches(j, n)
    BY <1>1 DEF Matching
  <2> QED
    BY <1>1, <2>1 DEF Offer
<1>2. CASE Matching(k, n) # {}
  <2>1. Matching(k, n) \in SUBSET Nat
    BY <1>0 DEF Matching
  <2>2. \E j \in Matching(k, n) : \A i \in Matching(k, n) : j <= i
    BY <1>2, <2>1, LeastNat
  <2>3. at' \in Matching(k, n) /\ \A i \in Matching(k, n) : at' <= i
    BY <1>2, <2>2 DEF Offer
  <2>4. \A j \in DOMAIN Adapters : j > k /\ j < at' => ~Matches(j, n)
    BY <1>0, <2>3 DEF Matching
  <2> QED
    BY <1>2, <2>3, <2>4 DEF Offer, Matching
<1> QED
  BY <1>1, <1>2

-----------------------------------------------------------------------------
(* Types.                                                                  *)

\* Sequences of notes heard, and what the queues do to them.
LEMMA QueueFacts ==
  ASSUME NEW S
  PROVE  /\ <<>> \in Seq(S)
         /\ \A s \in Seq(S), e \in S : Append(s, e) \in Seq(S) /\ Len(Append(s, e)) = Len(s) + 1
         /\ \A s \in Seq(S) : s # <<>> =>
              Head(s) \in S /\ Tail(s) \in Seq(S) /\ Len(Tail(s)) = Len(s) - 1
         /\ \A s \in Seq(S) : Len(s) \in Nat
         /\ \A s \in Seq(S), k \in Nat : k <= Len(s) => SubSeq(s, 1, k) \in Seq(S)
  OBVIOUS

\* What the router is left with when an adapter is done with an event.
LEMMA OfferTyped ==
  ASSUME Typed, NEW k \in Nat, NEW n \in heard, Offer(k, n)
  PROVE  /\ rt' \in {"select", "attempt"}
         /\ event' \in heard \cup {NoNote}
         /\ rt' = "attempt" => event' # NoNote /\ at' \in DOMAIN Adapters
         /\ at' \in 0 .. Len(Adapters) /\ attempt' \in 0 .. MaxAttempts
         /\ handled' \subseteq heard
<1>1. n \in Notes /\ n # NoNote /\ MaxAttempts >= 1
  BY DEF Typed, TypeOK
<1>2. DOMAIN Adapters = 1 .. Len(Adapters) /\ Len(Adapters) \in Nat
  OBVIOUS
<1> QED
  BY <1>1, <1>2, OfferGoesOn DEF Typed, TypeOK

LEMMA InitTyped == Init => Typed
<1> SUFFICES ASSUME Init PROVE Typed
  OBVIOUS
<1>1. wire \in Seq(Notes) /\ wire \in Seq(heard) /\ out \in Seq(Notes) /\ out \in Seq(heard)
  BY QueueFacts DEF Init
<1>2. Len(out) <= OutBuffer /\ at \in 0 .. Len(Adapters) /\ attempt \in 0 .. MaxAttempts
  BY DEF Init
<1>3. TypeOK
  BY <1>1, <1>2 DEF Init, TypeOK
<1> QED
  BY <1>1, <1>3 DEF Init, Typed, Flow, Retrying

LEMMA NextTyped == Typed /\ [Next]_vars => Typed'
<1> SUFFICES ASSUME Typed, [Next]_vars PROVE Typed'
  OBVIOUS
<1> USE DEF Typed, TypeOK, Flow, Retrying
<1>0. <<>> \in Seq(Notes) /\ <<>> \in Seq(heard) /\ Len(<<>>) <= OutBuffer
  BY QueueFacts
<1>1. ASSUME NEW n \in Notes, Raise(n) PROVE Typed'
  <2>1. heard \subseteq heard' /\ heard' \subseteq raised' /\ raised' \subseteq Notes
    BY <1>1 DEF Raise
  <2>2. wire \in Seq(heard') /\ out \in Seq(heard')
    BY <2>1, SeqMonotonic
  <2>3. wire' \in Seq(heard') /\ wire' \in Seq(Notes)
    <3>1. CASE alive /\ n.channel \in subs
      <4>1. wire' = Append(wire, n) /\ n \in heard'
        BY <1>1, <3>1 DEF Raise
      <4> QED
        BY <2>2, <4>1, QueueFacts
    <3>2. CASE ~(alive /\ n.channel \in subs)
      BY <1>1, <2>2, <3>2 DEF Raise
    <3> QED
      BY <3>1, <3>2
  <2> QED
    BY <1>1, <2>1, <2>2, <2>3
       DEF Raise, listener, router, outcomes, bounds
<1>2. CASE LoseConnection
  <2>1. PICK k \in 0 .. Len(wire) : wire' = SubSeq(wire, 1, k)
    BY <1>2 DEF LoseConnection
  <2>2. wire' \in Seq(Notes) /\ wire' \in Seq(heard)
    BY <2>1, QueueFacts
  <2>3. /\ alive' = FALSE /\ disconnects' \in Nat
        /\ UNCHANGED <<raised, subs, listener, router, cancelled, outcomes, heard, faults, stops>>
    BY <1>2 DEF LoseConnection
  <2> QED
    BY <2>2, <2>3 DEF listener, router, outcomes
<1>3. CASE Connect \/ Listen
  BY <1>0, <1>3 DEF Connect, Listen, router, outcomes, bounds
<1>4. CASE Receive
  BY <1>4, QueueFacts DEF Receive, router, outcomes, bounds
<1>5. CASE Push
  BY <1>5, QueueFacts DEF Push, conn, router, outcomes, bounds
<1>6. CASE SessionFails \/ ListenerStops
  BY <1>0, <1>6 DEF SessionFails, ListenerStops, NoConnection, router, outcomes, bounds
<1>7. CASE RouterTakes
  <2>1. Head(out) \in heard /\ out' \in Seq(heard) /\ out' \in Seq(Notes) /\ Len(out') <= OutBuffer
    BY <1>7, QueueFacts DEF RouterTakes
  <2>2. Offer(0, Head(out)) /\ 0 \in Nat
    BY <1>7 DEF RouterTakes
  <2> HIDE DEF Typed
  <2> QED
    BY <1>7, <2>1, <2>2, OfferTyped DEF RouterTakes, conn, bounds, Typed
<1>8. CASE RouterStops
  BY <1>8 DEF RouterStops, conn, listener, outcomes, bounds
<1>9. ASSUME rt \in {"attempt", "record"}, Offer(at, event),
             UNCHANGED <<raised, conn, listener, cancelled, heard, disconnects, stops>>,
             delivered' \in {delivered, delivered \cup {Pair}},
             dead' \in {dead, dead \cup {Pair}}, exhausted' = exhausted, faults' \in Nat
      PROVE  Typed'
  <2>1. at \in Nat /\ event \in heard /\ Pair \in Pairs
    BY <1>9 DEF Pair, Pairs
  <2>2. /\ rt' \in {"select", "attempt"}
        /\ event' \in heard \cup {NoNote}
        /\ rt' = "attempt" => event' # NoNote /\ at' \in DOMAIN Adapters
        /\ at' \in 0 .. Len(Adapters) /\ attempt' \in 0 .. MaxAttempts
        /\ handled' \subseteq heard
    BY <1>9, <2>1, OfferTyped
  <2> QED
    BY <1>9, <2>1, <2>2 DEF conn, listener
<1>10. CASE Delivers
  BY <1>9, <1>10 DEF Delivers, bounds
<1>11. CASE DeadLetter
  BY <1>9, <1>11 DEF DeadLetter
<1>12. CASE AttemptFails
  <2>1. Pair \in Pairs
    BY <1>12 DEF AttemptFails, Pair, Pairs
  <2> QED
    BY <1>12, <2>1 DEF AttemptFails, Exhausts, conn, listener, bounds
<1>13. CASE Retry \/ GiveUp
  BY <1>13 DEF Retry, GiveUp, conn, listener, outcomes, bounds
<1>14. CASE Start \/ Cancel
  <2>1. CASE Start
    BY <2>1 DEF Start, conn, outcomes, bounds
  <2>2. CASE Cancel
    BY <2>2 DEF Cancel, conn, listener, router, outcomes
  <2> QED
    BY <1>14, <2>1, <2>2
<1>15. CASE Exit
  <2>1. 0 \in 0 .. Len(Adapters) /\ 0 \in 0 .. MaxAttempts /\ Len(out') <= OutBuffer
    BY <1>0, <1>15 DEF Exit
  <2>2. stops' \in Nat
    BY <1>15 DEF Exit
  <2> QED
    BY <1>0, <1>15, <2>1, <2>2 DEF Exit, NoConnection, outcomes
<1>16. CASE UNCHANGED vars
  BY <1>16 DEF vars, conn, listener, router, outcomes, bounds
<1> QED
  BY <1>1, <1>2, <1>3, <1>4, <1>5, <1>6, <1>7, <1>8, <1>10, <1>11, <1>12, <1>13, <1>14,
     <1>15, <1>16 DEF Next, Listener, Router

\* Every reachable state of the listener and the router is well typed.
THEOREM NotifyTypes == Spec => []TypeOK
<1>1. Typed => TypeOK
  BY DEF Typed
<1> QED
  BY <1>1, InitTyped, NextTyped, PTL DEF Spec

-----------------------------------------------------------------------------
(* What was handled is settled.                                            *)

\* Of what the settling depends on, other steps change nothing, or count a stop.
LEMMA Unmoved ==
  ASSUME Inv, Typed',
         UNCHANGED <<rt, event, at, delivered, dead, exhausted, handled, faults>>,
         stops' = stops \/ stops' = stops + 1,
         cancelled' = cancelled \/ (cancelled' /\ stops' = stops + 1)
  PROVE  Cuts' /\ Served' /\ HandledIsSettled'
<1>1. Undisturbed' => Undisturbed
  BY DEF Undisturbed, Inv, Typed, TypeOK
<1>2. Cuts'
  BY DEF Cuts, Inv, Typed, TypeOK, Pair
<1>3. Served'
  BY <1>1 DEF Served, Inv, Handling, Settled
<1>4. HandledIsSettled'
  BY <1>1 DEF HandledIsSettled, Inv, Undisturbed
<1> QED
  BY <1>2, <1>3, <1>4

\* The router goes on from an adapter that is settled, and the ones before it are.
LEMMA OfferSettles ==
  ASSUME Inv, Typed', NEW k \in Nat, NEW n \in Notes, Offer(k, n),
         delivered \subseteq delivered', dead \subseteq dead', dead' \subseteq exhausted',
         Undisturbed' =>
           /\ Undisturbed
           /\ \A j \in DOMAIN Adapters : j <= k => Settled(n, j)',
         cancelled' => stops' > 0
  PROVE  Cuts' /\ Served' /\ HandledIsSettled'
<1>0. DOMAIN Adapters \subseteq Nat
  OBVIOUS
<1>1. Undisturbed => \A m \in handled, j \in DOMAIN Adapters : Settled(m, j)
  BY DEF Inv, HandledIsSettled, Settled, Undisturbed
<1>2. Undisturbed' => \A m \in handled, j \in DOMAIN Adapters : Settled(m, j)'
  BY <1>1 DEF Settled
<1>3. CASE /\ \A j \in DOMAIN Adapters : j > k => ~Matches(j, n)
           /\ rt' = "select" /\ handled' = handled \cup {n}
  <2>1. Cuts' /\ Served'
    BY <1>3 DEF Cuts, Served, Handling
  <2>2. Undisturbed' => \A j \in DOMAIN Adapters : Settled(n, j)'
    BY <1>0, <1>3 DEF Settled
  <2>3. Undisturbed' => \A m \in handled', j \in DOMAIN Adapters : Settled(m, j)'
    BY <1>2, <1>3, <2>2
  <2> QED
    BY <2>1, <2>3 DEF HandledIsSettled, Settled, Undisturbed
<1>4. CASE /\ rt' = "attempt" /\ event' = n /\ handled' = handled
           /\ at' \in DOMAIN Adapters /\ at' > k
           /\ \A j \in DOMAIN Adapters : j > k /\ j < at' => ~Matches(j, n)
  <2>1. Cuts'
    BY <1>4 DEF Cuts
  <2>2. Undisturbed' => \A j \in DOMAIN Adapters : j < at' => Settled(n, j)'
    BY <1>0, <1>4 DEF Settled
  <2>3. Served'
    BY <1>4, <2>2 DEF Served, Settled
  <2> QED
    BY <1>2, <1>4, <2>1, <2>3 DEF HandledIsSettled, Settled, Undisturbed
<1> QED
  BY <1>3, <1>4, OfferGoesOn

LEMMA InitInv == Init => Inv
<1> SUFFICES ASSUME Init PROVE Inv
  OBVIOUS
<1>1. Typed
  BY InitTyped
<1> QED
  BY <1>1 DEF Init, Inv, Cuts, Served, Handling, HandledIsSettled

LEMMA NextInv == Inv /\ [Next]_vars => Inv'
<1> SUFFICES ASSUME Inv, [Next]_vars, Typed' PROVE Cuts' /\ Served' /\ HandledIsSettled'
  BY NextTyped DEF Inv
<1>1. ASSUME \/ \E n \in Notes : Raise(n)
             \/ LoseConnection \/ Listener \/ Cancel \/ UNCHANGED vars
      PROVE  Cuts' /\ Served' /\ HandledIsSettled'
  <2>1. /\ UNCHANGED <<rt, event, at, delivered, dead, exhausted, handled, faults>>
        /\ stops' = stops \/ stops' = stops + 1
        /\ cancelled' = cancelled \/ (cancelled' /\ stops' = stops + 1)
    BY <1>1 DEF Raise, LoseConnection, Listener, Connect, Listen, Receive, Push, SessionFails,
                ListenerStops, Cancel, vars, router, outcomes, bounds
  <2> QED
    BY <2>1, Unmoved
<1>2. CASE RouterTakes
  <2>1. Head(out) \in Notes
    BY <1>2, QueueFacts DEF RouterTakes, Inv, Typed, TypeOK
  <2>2. \A j \in DOMAIN Adapters : ~(j <= 0)
    OBVIOUS
  <2>3. /\ Offer(0, Head(out)) /\ UNCHANGED <<delivered, dead, exhausted, cancelled, stops, faults>>
    BY <1>2 DEF RouterTakes, bounds
  <2> QED
    BY <2>1, <2>2, <2>3, OfferSettles DEF Inv, Cuts, HandledIsSettled, Undisturbed
<1>3. CASE RouterStops \/ Start
  <2>1. /\ rt' \in {"stopped", "select"}
        /\ UNCHANGED <<delivered, dead, exhausted, handled, cancelled, stops, faults>>
    BY <1>3 DEF RouterStops, Start, outcomes, bounds
  <2> QED
    BY <2>1 DEF Inv, Cuts, Served, Handling, HandledIsSettled
<1>0. DOMAIN Adapters \subseteq Nat
  OBVIOUS
<1>4. CASE Delivers
  <2>1. at \in Nat /\ event \in Notes /\ Handling
    BY <1>4 DEF Delivers, Handling, Inv, Typed, TypeOK
  <2>2. PICK n \in Notes : n = event
    BY <2>1
  <2>3. /\ Offer(at, n) /\ delivered' = delivered \cup {<<at, n>>}
        /\ UNCHANGED <<dead, exhausted, cancelled, stops, faults>>
    BY <1>4, <2>2 DEF Delivers, Pair, bounds
  <2>4. Undisturbed => \A j \in DOMAIN Adapters : j < at => Settled(n, j)
    BY <2>1, <2>2 DEF Inv, Served
  <2>5. Undisturbed => \A j \in DOMAIN Adapters : j <= at => Settled(n, j)'
    BY <1>0, <2>1, <2>3, <2>4 DEF Settled
  <2> QED
    BY <2>1, <2>3, <2>5, OfferSettles DEF Inv, Cuts, HandledIsSettled, Undisturbed
<1>5. CASE DeadLetter
  <2>1. at \in Nat /\ event \in Notes /\ Handling
    BY <1>5 DEF DeadLetter, Handling, Inv, Typed, TypeOK
  <2>2. PICK n \in Notes : n = event
    BY <2>1
  <2>3. /\ Offer(at, n) /\ UNCHANGED <<delivered, exhausted, cancelled, stops>>
        /\ dead \subseteq dead'
    BY <1>5, <2>2 DEF DeadLetter
  <2>4. dead' \subseteq exhausted'
    BY <1>5, <2>3 DEF DeadLetter, InsertIsLive, Inv, Cuts, HandledIsSettled
  <2>5. Undisturbed' => Undisturbed /\ <<at, n>> \in dead'
    BY <1>5, <2>2 DEF DeadLetter, InsertIsLive, Inv, Cuts, Undisturbed, Typed, TypeOK, Pair
  <2>6. Undisturbed => \A j \in DOMAIN Adapters : j < at => Settled(n, j)
    BY <2>1, <2>2 DEF Inv, Served
  <2>7. Undisturbed' => \A j \in DOMAIN Adapters : j <= at => Settled(n, j)'
    BY <1>0, <2>1, <2>3, <2>5, <2>6 DEF Settled
  <2> QED
    BY <2>1, <2>3, <2>4, <2>5, <2>7, OfferSettles DEF Inv, Cuts
<1>6. CASE AttemptFails \/ Retry \/ GiveUp
  <2>1. /\ Handling /\ Handling' /\ UNCHANGED <<event, at, dead, handled, cancelled, stops, faults>>
        /\ delivered \subseteq delivered' /\ exhausted \subseteq exhausted'
    BY <1>6 DEF AttemptFails, Exhausts, Retry, GiveUp, Handling, outcomes, bounds
  <2>2. rt' = "record" /\ ~cancelled => <<at, event>> \in exhausted'
    BY <1>6 DEF AttemptFails, Retry, GiveUp, Pair
  <2>3. Cuts'
    BY <2>1, <2>2 DEF Inv, Cuts, Pair
  <2>4. Served'
    BY <2>1 DEF Inv, Served, Settled, Undisturbed
  <2> QED
    BY <2>1, <2>3, <2>4 DEF Inv, HandledIsSettled
<1>7. CASE Exit
  <2>1. /\ rt' = "down" /\ cancelled' = FALSE /\ UNCHANGED <<outcomes, faults>>
        /\ stops' = 0 => stops = 0
    BY <1>7 DEF Exit, Inv, Typed, TypeOK
  <2> QED
    BY <2>1 DEF Inv, Cuts, Served, Handling, HandledIsSettled, outcomes
<1> QED
  BY <1>1, <1>2, <1>3, <1>4, <1>5, <1>6, <1>7 DEF Next, Router

\* "With retry and a dead-letter table": whatever adapters do, and however many
\* there are, a notification is not done with before each adapter that wants it
\* has it or has its dead letter.
THEOREM HandledIsSettledHolds == Spec => []HandledIsSettled
<1>1. Inv => HandledIsSettled
  BY DEF Inv
<1> QED
  BY <1>1, InitInv, NextInv, PTL DEF Spec
=============================================================================
