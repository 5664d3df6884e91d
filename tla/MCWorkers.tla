------------------------------ MODULE MCWorkers ------------------------------
(* Instances of Workers for TLC.                                           *)
EXTENDS Workers

CONSTANTS v1, v2

\* Sweeps that fail until they are given up; refreshes and matches of two lists,
\* failing in one period, or over two periods; enrichments that fail until they are
\* discarded, and enrichments beside the pruning of what they read.
FiveCasts ==
  {[kinds |-> {"sweep"}, rows |-> 3,
    periods |-> 0, lists |-> 0, faults |-> 2, stops |-> 1],
   [kinds |-> {"refresh", "match"}, rows |-> 4,
    periods |-> 0, lists |-> 1, faults |-> 1, stops |-> 0],
   [kinds |-> {"refresh", "match"}, rows |-> 4,
    periods |-> 1, lists |-> 1, faults |-> 0, stops |-> 0],
   [kinds |-> {"enrich"}, rows |-> 1,
    periods |-> 2, lists |-> 0, faults |-> 2, stops |-> 1],
   [kinds |-> {"enrich", "prune"}, rows |-> 2,
    periods |-> 2, lists |-> 0, faults |-> 1, stops |-> 1]}
=============================================================================
