------------------------------ MODULE MCNaive ------------------------------
(* Instances of NaiveQueue for TLC.                                        *)
EXTENDS NaiveQueue

CONSTANTS w1, w2, w3
=============================================================================
