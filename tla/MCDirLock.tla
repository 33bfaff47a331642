------------------------------ MODULE MCDirLock ------------------------------
(* DirLock for TLC: the callers are interchangeable.                        *)
EXTENDS DirLock, TLC

Symmetry == Permutations(Procs)

=============================================================================
