----------------------------- MODULE MCStateSync -----------------------------
(* Instances of StateSync for TLC.                                         *)
EXTENDS StateSync, TLC

=============================================================================
