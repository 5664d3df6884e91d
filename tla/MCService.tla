------------------------------ MODULE MCService ------------------------------
(* An instance of Service for TLC: two clients, two flushes.               *)
EXTENDS Service

CONSTANTS c1, c2, cdc, river

near == <<1, 1>>
far == <<5, 5>>

TwoFlushes == <<<<near, far>>, <<near>>>>

\* A box around near, its corners in no particular order, and one around both.
Small == <<2, 0, 0, 2>>
Large == <<0, 0, 6, 6>>
TwoBoxes == {Small, Large}

\* Two clients of a service that runs; a client of one that stops; components
\* that fail, stop, or ignore their context.
ThreeCasts ==
  {[clients |-> {c1, c2}, others |-> {}, stops |-> FALSE],
   [clients |-> {c1}, others |-> {}, stops |-> TRUE],
   [clients |-> {}, others |-> {cdc, river}, stops |-> TRUE]}
=============================================================================
