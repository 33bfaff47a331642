------------------------------ MODULE MCThreads ------------------------------
(* Instances of Threads for TLC.                                           *)
EXTENDS Threads, TLC

CONSTANTS r1, r2, op, o1, none, f

=============================================================================
