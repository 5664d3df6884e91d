------------------------------ MODULE MCIngest ------------------------------
(* Instances of Ingest for TLC.                                            *)
EXTENDS Ingest

CONSTANTS v1, v2, harbour, sea

Position(seq, v, t, place) ==
  [seq |-> seq, mmsi |-> v, type |-> "position", reported |-> t, place |-> place]
Static(seq, v) ==
  [seq |-> seq, mmsi |-> v, type |-> "static", reported |-> NoTime, place |-> NoPlace]

\* Two fixes of one vessel, the newer of them sent twice, and a second vessel's
\* static message.
RepeatedFix ==
  {Position(1, v1, 1, harbour), Position(2, v1, 2, sea), Position(3, v1, 2, sea),
   Static(4, v2)}

\* An untimed fix between two vessels' first reports, one without coordinates.
UntimedFix ==
  {Position(1, v1, 1, harbour), Position(2, v1, NoTime, sea), Position(3, v2, 2, NoPlace)}
=============================================================================
