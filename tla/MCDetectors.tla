----------------------------- MODULE MCDetectors -----------------------------
(* Instances of Detectors for TLC.                                         *)
EXTENDS Detectors

CONSTANTS v1, v2, harbour, terminal, roads, bank, sea

First1(a, b) == a = v1 /\ b = v2

Port(place) == IF place \in {harbour, terminal} THEN place ELSE NoPort

\* One vessel watched for calls and gaps, between two ports and the sea or in and
\* out of one port and reporting late; one on both sides of a fence, reporting
\* late; two that meet and sail on, or shift to another anchorage; one whose reports
\* are far apart, and late.
SixCasts ==
  {[vessels |-> {v1}, places |-> {harbour, terminal, sea}, delay |-> 0, until |-> 5,
    scans |-> {"calls", "gaps"}],
   [vessels |-> {v1}, places |-> {harbour, sea}, delay |-> 1, until |-> 5,
    scans |-> {"calls", "gaps"}],
   [vessels |-> {v1}, places |-> {harbour, sea}, delay |-> 1, until |-> 5, scans |-> {"fence"}],
   [vessels |-> {v1, v2}, places |-> {roads, sea}, delay |-> 0, until |-> 5,
    scans |-> {"transfers"}],
   [vessels |-> {v1, v2}, places |-> {roads, bank}, delay |-> 0, until |-> 4,
    scans |-> {"transfers"}],
   [vessels |-> {v1}, places |-> {sea}, delay |-> 1, until |-> 7, scans |-> {"holes"}]}

\* Two that meet and sail on.
PartingCast == {k \in SixCasts : k.scans = {"transfers"} /\ sea \in k.places}
=============================================================================
