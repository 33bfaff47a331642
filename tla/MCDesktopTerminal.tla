-------------------------- MODULE MCDesktopTerminal --------------------------
(* Instances of DesktopTerminal for TLC.                                   *)
EXTENDS DesktopTerminal

Sizes == {1, 2, 3}

=============================================================================
