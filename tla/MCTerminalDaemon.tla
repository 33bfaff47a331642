-------------------------- MODULE MCTerminalDaemon --------------------------
(* Instances of TerminalDaemon for TLC.                                    *)
EXTENDS TerminalDaemon, TLC

CONSTANTS t1, t2, t3, main, other, c1, c2

\* Two terminals compete for one working tree.
TwoTrees == (t1 :> main) @@ (t2 :> main) @@ (t3 :> other)
OneEach == (t1 :> main) @@ (t2 :> other)

=============================================================================
