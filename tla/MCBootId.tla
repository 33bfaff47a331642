------------------------------ MODULE MCBootId ------------------------------
(* Instances of BootId for TLC.                                            *)
EXTENDS BootId, TLC

CONSTANTS launcher, reconcile

Symmetry == Permutations({launcher, reconcile})

=============================================================================
