-------------------------------- MODULE MCCdc --------------------------------
(* Instances of Cdc for TLC.                                                  *)
EXTENDS Cdc

CONSTANTS t1, t2
=============================================================================
