--------------------------- MODULE MCDaemonStart ---------------------------
(* Instances of DaemonStart for TLC.                                       *)
EXTENDS DaemonStart, TLC

CONSTANTS tui, cli, app, d1, d2, d3

Symmetry == Permutations({d1, d2, d3})

=============================================================================
