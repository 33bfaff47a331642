---------------------------- MODULE MCOrphanBids ----------------------------
(* Instances of OrphanBids for TLC.                                        *)
EXTENDS OrphanBids, TLC

CONSTANTS p, q, r

\* Two controllers bid as the CLI does; a third one bids higher.
OneHigher == (p :> 1) @@ (q :> 1) @@ (r :> 2)
Same == [c \in Controllers |-> 1]
Ids == (p :> 1) @@ (q :> 2) @@ (r :> 3)

=============================================================================
