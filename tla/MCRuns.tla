------------------------------- MODULE MCRuns -------------------------------
(* Instances of Runs for TLC.                                              *)
EXTENDS Runs, TLC

CONSTANTS a, b, c, x, y, main, f

\* a and b repeat one operation in one worktree, c is another launch there.
RepeatOps == (a :> x) @@ (b :> x) @@ (c :> y)
PairOps == (a :> x) @@ (b :> y)
SameOp == [l \in Launchers |-> x]
OneTree == [l \in Launchers |-> main]

=============================================================================
