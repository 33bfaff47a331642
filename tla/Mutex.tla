-------------------------------- MODULE Mutex --------------------------------
(***************************************************************************)
(* What withDirectoryLock (src/src/state/lock.ts) promises its callers:    *)
(* at most one of them runs its function at a time, a caller owns the lock *)
(* from before its function starts until after it ends, and only the lock  *)
(* of a process that died is ever taken away from its owner.  DirLock      *)
(* implements this specification with directories.                         *)
(***************************************************************************)
CONSTANTS
  Procs,     \* the callers, each in a process of its own
  NoOwner    \* the owner of a free lock, none of Procs

VARIABLES
  alive,     \* the processes that have not died
  owner,     \* who owns the lock
  working    \* the callers whose function is running

vars == <<alive, owner, working>>

Init ==
  /\ alive = Procs
  /\ owner = NoOwner
  /\ working = {}

Acquire(p) ==
  /\ p \in alive
  /\ owner = NoOwner
  /\ owner' = p
  /\ UNCHANGED <<alive, working>>

Begin(p) ==
  /\ owner = p
  /\ p \in alive
  /\ working' = working \cup {p}
  /\ UNCHANGED <<alive, owner>>

Finish(p) ==
  /\ p \in working
  /\ working' = working \ {p}
  /\ UNCHANGED <<alive, owner>>

\* By p itself, or on behalf of a p that died.
Release(p) ==
  /\ owner = p
  /\ p \notin working
  /\ owner' = NoOwner
  /\ UNCHANGED <<alive, working>>

Die(p) ==
  /\ p \in alive
  /\ alive' = alive \ {p}
  /\ working' = working \ {p}
  /\ UNCHANGED owner

Next ==
  \E p \in Procs : Acquire(p) \/ Begin(p) \/ Finish(p) \/ Release(p) \/ Die(p)

Spec == Init /\ [][Next]_vars

=============================================================================
