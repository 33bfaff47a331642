--------------------------- MODULE MCActivityFeed ---------------------------
(* Instances of ActivityFeed for TLC.                                      *)
EXTENDS ActivityFeed

CONSTANTS p, q, r, main, other

Repositories == [x \in Procs |-> IF x = r THEN other ELSE main]

Updates == [j \in Projects |-> IF j = main THEN 3 ELSE 1]

=============================================================================
