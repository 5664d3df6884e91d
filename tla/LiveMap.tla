------------------------------- MODULE LiveMap -------------------------------
(***************************************************************************)
(* What the ingest path promises to the live map, with no mention of       *)
(* batches, statements or failures.  An archive of fixes only grows.  A    *)
(* cache holds at most one fix per vessel: it only ever moves to an        *)
(* archived fix of that vessel which is not older, or loses everything at  *)
(* once.  Only archived messages are ever published.                       *)
(***************************************************************************)
EXTENDS Integers

CONSTANTS Vessels, NoFix

VARIABLES archive, cache, feed
vars == <<archive, cache, feed>>

Empty == [v \in Vessels |-> NoFix]

Init == archive = {} /\ cache = Empty /\ feed = {}

Archive ==
  /\ archive \subseteq archive'
  /\ UNCHANGED <<cache, feed>>

\* A vessel's entry stays, or moves to an archived fix at least as new.
MayReplace(v, f) ==
  \/ f = cache[v]
  \/ f \in archive /\ f.msg.mmsi = v /\ f.reported >= cache[v].reported

Refresh ==
  /\ cache' = [v \in Vessels |-> cache'[v]]
  /\ \A v \in Vessels : MayReplace(v, cache'[v])
  /\ UNCHANGED <<archive, feed>>

Publish ==
  /\ feed \subseteq feed'
  /\ feed' \ feed \subseteq {f.msg : f \in archive}
  /\ UNCHANGED <<archive, cache>>

Truncate == cache' = Empty /\ UNCHANGED <<archive, feed>>

Next == Archive \/ Refresh \/ Publish \/ Truncate

Spec == Init /\ [][Next]_vars
=============================================================================
