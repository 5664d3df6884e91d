------------------------------- MODULE MCNotify -------------------------------
(* Instances of Notify for TLC.                                            *)
EXTENDS Notify

CONSTANTS gap, crossing

\* Two alerts of one channel and one of another.
Alerts ==
  {[id |-> 1, channel |-> crossing], [id |-> 2, channel |-> crossing],
   [id |-> 3, channel |-> gap]}

\* Stdout, without filter, and an adapter that can fail and wants one channel.
Sinks ==
  <<[channels |-> {}, fallible |-> FALSE], [channels |-> {crossing}, fallible |-> TRUE]>>
=============================================================================
