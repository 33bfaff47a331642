--------------------------- MODULE MCAttachSession ---------------------------
(* Instances of AttachSession for TLC.                                     *)
EXTENDS AttachSession

Sizes == {1, 2, 3}

=============================================================================
