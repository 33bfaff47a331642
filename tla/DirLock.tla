------------------------------- MODULE DirLock -------------------------------
(***************************************************************************)
(* The directory lock of src/src/state/lock.ts.  A lock is the directory   *)
(* <name>.lock holding owner.json; whoever acquires, releases or reclaims  *)
(* it does so while holding a second directory, the gate <name>.lock.gate. *)
(* Both are created by renaming a private claim directory into place and   *)
(* are removed by a recursive rm, which first unlinks owner.json and then  *)
(* removes the emptied directory.                                          *)
(*                                                                         *)
(* A process never restarts under its own identity, so the random token of *)
(* owner.json is represented by the process that wrote it: a token that    *)
(* another process remembers is that of a dead owner, who writes no other. *)
(***************************************************************************)
EXTENDS Naturals, FiniteSets

CONSTANTS
  Procs,            \* the callers, each in a process of its own
  NoOwner,          \* what readOwner returns for missing metadata
  RenameOverEmpty,  \* TRUE on POSIX: rename(2) replaces an empty directory
  CrashInGate,      \* may a process die while it is at work under the gate?
  MaxCrashes,       \* bound: deaths per behaviour
  GateAttempts,     \* bound: ACQUIRE_ATTEMPTS of acquireGate
  LockAttempts,     \* bound: the attempts of acquire
  RmRetries         \* bound: maxRetries of rm

ASSUME DirLockAssumption ==
  /\ NoOwner \notin Procs
  /\ RenameOverEmpty \in BOOLEAN
  /\ CrashInGate \in BOOLEAN
  /\ MaxCrashes \in Nat
  /\ GateAttempts \in Nat \ {0}
  /\ LockAttempts \in Nat \ {0}
  /\ RmRetries \in Nat

Dirs == {"gate", "lock"}

\* What a recursive rm is removing, and why.
Removals == {"staleGate", "staleLock", "ownLock", "ownGate"}
RemovedDir(r) == IF r \in {"staleGate", "ownGate"} THEN "gate" ELSE "lock"

VARIABLES
  alive,     \* the processes that have not died
  exists,    \* the directories that exist
  meta,      \* per directory, the owner its owner.json names
  at,        \* per process, its next file system call
  goal,      \* per process, what its current stay under the gate is for
  seen,      \* per process, the stale owner it read
  removing,  \* per process, its current removal
  gateTry,   \* per process, iterations of acquireGate's loop
  lockTry,   \* per process, iterations of acquire's loop
  rmTry,     \* per process, retries of its rm
  robbed     \* history: a living process's gate was emptied by another one

vars == <<alive, exists, meta, at, goal, seen, removing, gateTry, lockTry, rmTry,
          robbed>>

Labels == {"idle", "createGate", "statGate", "readGate", "checkGate", "createLock",
           "statLock", "readLock", "recreateLock", "work", "checkLock",
           "checkOwnGate", "unlink", "rmdir"}

Goals == {"acquire", "enter", "retry", "fail", "release"}

Init ==
  /\ alive = Procs
  /\ exists = {}
  /\ meta = [d \in Dirs |-> NoOwner]
  /\ at = [p \in Procs |-> "idle"]
  /\ goal = [p \in Procs |-> "acquire"]
  /\ seen = [p \in Procs |-> NoOwner]
  /\ removing = [p \in Procs |-> "ownGate"]
  /\ gateTry = [p \in Procs |-> 0]
  /\ lockTry = [p \in Procs |-> 0]
  /\ rmTry = [p \in Procs |-> 0]
  /\ robbed = FALSE

Goto(p, l) == at' = [at EXCEPT ![p] = l]
At(p, l) == p \in alive /\ at[p] = l

\* lockIsStale: age is no proof, only a recorded owner that is dead.
Stale(o) == o # NoOwner /\ o \notin alive

\* Fault: the directory is put in place of whatever is there.
CanReplace(d) == d \in Dirs

\* rename(claim, d): refused where d holds a file, and on Windows wherever d is.
CanCreate(d) ==
  \/ d \notin exists
  \/ RenameOverEmpty /\ meta[d] = NoOwner

CreateOwned(p, d) ==
  /\ CanCreate(d)
  /\ exists' = exists \cup {d}
  /\ meta' = [meta EXCEPT ![d] = p]

-----------------------------------------------------------------------------
(* withDirectoryLock: the call, and the end of its function.               *)

Call(p) ==
  /\ At(p, "idle")
  /\ Goto(p, "createGate")
  /\ goal' = [goal EXCEPT ![p] = "acquire"]
  /\ gateTry' = [gateTry EXCEPT ![p] = 0]
  /\ lockTry' = [lockTry EXCEPT ![p] = 0]
  /\ UNCHANGED <<alive, exists, meta, seen, removing, rmTry, robbed>>

FinishWork(p) ==
  /\ At(p, "work")
  /\ Goto(p, "createGate")
  /\ goal' = [goal EXCEPT ![p] = "release"]
  /\ gateTry' = [gateTry EXCEPT ![p] = 0]
  /\ UNCHANGED <<alive, exists, meta, seen, removing, lockTry, rmTry, robbed>>

-----------------------------------------------------------------------------
(* acquireGate.  After its last attempt it throws: acquire gives up, and a *)
(* release leaves the lock where it is.                                    *)

\* Fault: acquireGate does not count its attempts.
NeverGivesUp(p) ==
  /\ gateTry' = gateTry
  /\ Goto(p, "createGate")

NextGateAttempt(p) ==
  /\ gateTry' = [gateTry EXCEPT ![p] = @ + 1]
  /\ Goto(p, IF gateTry[p] + 1 < GateAttempts THEN "createGate" ELSE "idle")

CreateGate(p) ==
  /\ At(p, "createGate")
  /\ \/ /\ CreateOwned(p, "gate")
        /\ Goto(p, IF goal[p] = "release" THEN "checkLock" ELSE "createLock")
     \/ /\ ~CanCreate("gate")
        /\ Goto(p, IF RenameOverEmpty THEN "readGate" ELSE "statGate")
        /\ UNCHANGED <<exists, meta>>
  /\ UNCHANGED <<alive, goal, seen, removing, gateTry, lockTry, rmTry, robbed>>

\* normalizeDestinationExistsError: the EPERM of Windows means a gate that is in
\* the way only if one is still there; otherwise acquireGate throws it.
StatGate(p) ==
  /\ At(p, "statGate")
  /\ Goto(p, IF "gate" \in exists THEN "readGate" ELSE "idle")
  /\ UNCHANGED <<alive, exists, meta, goal, seen, removing, gateTry, lockTry, rmTry,
                 robbed>>

ReadGate(p) ==
  /\ At(p, "readGate")
  /\ \/ /\ Stale(meta["gate"])
        /\ seen' = [seen EXCEPT ![p] = meta["gate"]]
        /\ Goto(p, "checkGate")
        /\ UNCHANGED gateTry
     \/ /\ ~Stale(meta["gate"])
        /\ NextGateAttempt(p)
        /\ UNCHANGED seen
  /\ UNCHANGED <<alive, exists, meta, goal, removing, lockTry, rmTry, robbed>>

\* removeIfOwned(directory, current) for the gate of a dead process: the
\* token is compared once, before the removal.
CheckGate(p) ==
  /\ At(p, "checkGate")
  /\ seen' = [seen EXCEPT ![p] = NoOwner]
  /\ \/ /\ meta["gate"] = seen[p]
        /\ Goto(p, "unlink")
        /\ removing' = [removing EXCEPT ![p] = "staleGate"]
        /\ UNCHANGED gateTry
     \/ /\ meta["gate"] # seen[p]
        /\ NextGateAttempt(p)
        /\ UNCHANGED removing
  /\ rmTry' = [rmTry EXCEPT ![p] = 0]
  /\ UNCHANGED <<alive, exists, meta, goal, lockTry, robbed>>

-----------------------------------------------------------------------------
(* acquire, under the gate: create the lock, or reclaim a dead owner's.    *)

LeaveGate(p, g) ==
  /\ goal' = [goal EXCEPT ![p] = g]
  /\ Goto(p, "checkOwnGate")

CreateLock(p) ==
  /\ At(p, "createLock")
  /\ \/ CreateOwned(p, "lock") /\ LeaveGate(p, "enter")
     \/ /\ ~CanCreate("lock")
        /\ Goto(p, IF RenameOverEmpty THEN "readLock" ELSE "statLock")
        /\ UNCHANGED <<exists, meta, goal>>
  /\ UNCHANGED <<alive, seen, removing, gateTry, lockTry, rmTry, robbed>>

StatLock(p) ==
  /\ At(p, "statLock")
  /\ \/ "lock" \in exists /\ Goto(p, "readLock") /\ UNCHANGED goal
     \/ "lock" \notin exists /\ LeaveGate(p, "fail")
  /\ UNCHANGED <<alive, exists, meta, seen, removing, gateTry, lockTry, rmTry, robbed>>

\* Fault: the gate's holder reclaims whatever lock is in its way.
ReadLockUnchecked(p) ==
  /\ At(p, "readLock")
  /\ Goto(p, "unlink")
  /\ removing' = [removing EXCEPT ![p] = "staleLock"]
  /\ rmTry' = [rmTry EXCEPT ![p] = 0]
  /\ UNCHANGED <<alive, exists, meta, goal, seen, gateTry, lockTry, robbed>>

\* Fault: the gate's holder waits for the owner of the lock to die.
ReadLockWaiting(p) == Stale(meta["lock"]) /\ ReadLockUnchecked(p)

ReadLock(p) ==
  /\ At(p, "readLock")
  /\ \/ /\ Stale(meta["lock"])
        /\ Goto(p, "unlink")
        /\ removing' = [removing EXCEPT ![p] = "staleLock"]
        /\ UNCHANGED goal
     \/ ~Stale(meta["lock"]) /\ LeaveGate(p, "retry") /\ UNCHANGED removing
  /\ rmTry' = [rmTry EXCEPT ![p] = 0]
  /\ UNCHANGED <<alive, exists, meta, seen, gateTry, lockTry, robbed>>

RecreateLock(p) ==
  /\ At(p, "recreateLock")
  /\ \/ CreateOwned(p, "lock") /\ LeaveGate(p, "enter")
     \/ ~CanCreate("lock") /\ LeaveGate(p, "fail") /\ UNCHANGED <<exists, meta>>
  /\ UNCHANGED <<alive, seen, removing, gateTry, lockTry, rmTry, robbed>>

-----------------------------------------------------------------------------
(* release, under the gate, and removeIfOwned of the process's own gate.   *)

CheckLock(p) ==
  /\ At(p, "checkLock")
  /\ \/ /\ meta["lock"] = p
        /\ Goto(p, "unlink")
        /\ removing' = [removing EXCEPT ![p] = "ownLock"]
     \/ meta["lock"] # p /\ Goto(p, "checkOwnGate") /\ UNCHANGED removing
  /\ rmTry' = [rmTry EXCEPT ![p] = 0]
  /\ UNCHANGED <<alive, exists, meta, goal, seen, gateTry, lockTry, robbed>>

\* Fault: an acquire whose attempts are used up goes on all the same.
AfterGateUnchecked(p) ==
  CASE goal[p] = "release" -> "idle"
    [] goal[p] = "retry" /\ lockTry[p] + 1 < LockAttempts -> "createGate"
    [] OTHER -> "work"

\* Where a caller goes once it has left the gate.
AfterGate(p) ==
  CASE goal[p] = "enter" -> "work"
    [] goal[p] = "retry" /\ lockTry[p] + 1 < LockAttempts -> "createGate"
    [] OTHER -> "idle"

GateLeft(p) ==
  /\ Goto(p, AfterGate(p))
  /\ gateTry' = [gateTry EXCEPT ![p] = 0]
  /\ lockTry' = [lockTry EXCEPT ![p] = IF goal[p] = "retry" THEN @ + 1 ELSE @]
  /\ goal' = [goal EXCEPT ![p] = "acquire"]

CheckOwnGate(p) ==
  /\ At(p, "checkOwnGate")
  /\ \/ /\ meta["gate"] = p
        /\ Goto(p, "unlink")
        /\ removing' = [removing EXCEPT ![p] = "ownGate"]
        /\ UNCHANGED <<goal, gateTry, lockTry>>
     \/ meta["gate"] # p /\ GateLeft(p) /\ UNCHANGED removing
  /\ rmTry' = [rmTry EXCEPT ![p] = 0]
  /\ UNCHANGED <<alive, exists, meta, seen, robbed>>

-----------------------------------------------------------------------------
(* rm -r with maxRetries: delete what the directory holds, remove it, and  *)
(* start again when something was put into it in between.                  *)

\* p empties a gate that by now is another living process's.
Robs(p) == RemovedDir(removing[p]) = "gate" /\ meta["gate"] \in alive \ {p}

Unlink(p) ==
  /\ At(p, "unlink")
  /\ meta' = [meta EXCEPT ![RemovedDir(removing[p])] = NoOwner]
  /\ robbed' = (robbed \/ Robs(p))
  /\ Goto(p, "rmdir")
  /\ UNCHANGED <<alive, exists, goal, seen, removing, gateTry, lockTry, rmTry>>

\* How the caller of rm goes on.  Only the removal of a stale lock lets the
\* ENOTEMPTY that outlasted the retries through, as a failed acquisition;
\* removeIfOwned swallows it, the directory being another owner's by then.
AfterRm(p, failed) ==
  \/ /\ removing[p] = "staleGate"
     /\ NextGateAttempt(p)
     /\ UNCHANGED <<goal, lockTry>>
  \/ /\ removing[p] = "staleLock" /\ failed
     /\ LeaveGate(p, "fail")
     /\ UNCHANGED <<gateTry, lockTry>>
  \/ /\ removing[p] = "staleLock" /\ ~failed
     /\ Goto(p, "recreateLock")
     /\ UNCHANGED <<goal, gateTry, lockTry>>
  \/ /\ removing[p] = "ownLock"
     /\ Goto(p, "checkOwnGate")
     /\ UNCHANGED <<goal, gateTry, lockTry>>
  \/ removing[p] = "ownGate" /\ GateLeft(p)

\* Fault: only what the directory holds is removed.
RmdirForgotten(p) ==
  /\ At(p, "rmdir")
  /\ AfterRm(p, FALSE)
  /\ UNCHANGED <<alive, exists, meta, seen, removing, rmTry, robbed>>

Rmdir(p) ==
  LET d == RemovedDir(removing[p]) IN
  /\ At(p, "rmdir")
  /\ \/ /\ meta[d] = NoOwner
        /\ exists' = exists \ {d}
        /\ AfterRm(p, FALSE)
        /\ UNCHANGED rmTry
     \/ /\ meta[d] # NoOwner
        /\ rmTry[p] < RmRetries
        /\ rmTry' = [rmTry EXCEPT ![p] = @ + 1]
        /\ Goto(p, "unlink")
        /\ UNCHANGED <<exists, goal, gateTry, lockTry>>
     \/ /\ meta[d] # NoOwner
        /\ rmTry[p] = RmRetries
        /\ AfterRm(p, TRUE)
        /\ UNCHANGED <<exists, rmTry>>
  /\ UNCHANGED <<alive, meta, seen, removing, robbed>>

-----------------------------------------------------------------------------
(* A process dies between two file system calls.                           *)

\* p holds the gate, or believes it does.
InGate(p) ==
  \/ at[p] \in {"createLock", "statLock", "readLock", "recreateLock", "checkLock",
                "checkOwnGate"}
  \/ at[p] \in {"unlink", "rmdir"} /\ removing[p] # "staleGate"

Crash(p) ==
  /\ p \in alive
  /\ Cardinality(Procs \ alive) < MaxCrashes
  /\ InGate(p) => CrashInGate
  /\ alive' = alive \ {p}
  /\ UNCHANGED <<exists, meta, at, goal, seen, removing, gateTry, lockTry, rmTry,
                 robbed>>

Step(p) ==
  \/ CreateGate(p) \/ StatGate(p) \/ ReadGate(p) \/ CheckGate(p)
  \/ CreateLock(p) \/ StatLock(p) \/ ReadLock(p) \/ RecreateLock(p)
  \/ CheckLock(p) \/ CheckOwnGate(p) \/ Unlink(p) \/ Rmdir(p)

Next == \E p \in Procs : Call(p) \/ FinishWork(p) \/ Step(p) \/ Crash(p)

Spec == Init /\ [][Next]_vars

\* A process that is inside lock.ts goes on to its next file system call; it
\* need never call, and its function may never end.
FairSpec == Spec /\ \A p \in Procs : WF_vars(Step(p))

-----------------------------------------------------------------------------
(* Properties                                                              *)

\* Every variable keeps its type.
TypeOK ==
  /\ alive \in SUBSET Procs
  /\ exists \in SUBSET Dirs
  /\ meta \in [Dirs -> Procs \cup {NoOwner}]
  /\ at \in [Procs -> Labels]
  /\ goal \in [Procs -> Goals]
  /\ seen \in [Procs -> Procs \cup {NoOwner}]
  /\ removing \in [Procs -> Removals]
  /\ gateTry \in [Procs -> Nat]
  /\ lockTry \in [Procs -> Nat]
  /\ rmTry \in [Procs -> Nat]
  /\ robbed \in BOOLEAN

Working == {p \in alive : at[p] = "work"}

\* Two callers of withDirectoryLock on one lock never run their functions at the
\* same time, on any platform and wherever processes die, as long as nobody has
\* emptied the gate of a living process.
MutualExclusion == ~robbed => \A p, q \in Working : p = q

\* While a caller's function runs, the lock directory still names that caller:
\* nobody reclaimed, released or replaced the lock under it, as long as nobody has
\* emptied the gate of a living process.
LockKept == ~robbed => \A p \in Working : "lock" \in exists /\ meta["lock"] = p

\* The gate of a living process is emptied by that process alone.  The code breaks
\* it where a process dies under the gate and two callers reclaim what it left
\* (removeIfOwned compares the token and removes later), and where rename replaces
\* the directory that a remover has just emptied.
GateRespected == ~robbed

\* "The gate serializes acquire, release, and reclamation" (lock.ts:205): no
\* two living processes work under the gate at once.
GateSerializes == \A p, q \in alive : InGate(p) /\ InGate(q) => p = q

\* A directory without metadata names no dead owner, so no later caller can
\* reclaim it: the only one is a directory whose remover is between the two
\* steps of its removal, or died there.
NoOrphanDirectory ==
  \A d \in exists : meta[d] = NoOwner =>
    \E p \in Procs : at[p] = "rmdir" /\ RemovedDir(removing[p]) = d

\* Whatever the others do, a call of acquire or release ends: the caller gets
\* to run its function, or the call returns or throws.
CallEnds ==
  \A p \in Procs : (p \in alive /\ at[p] \notin {"idle", "work"})
                    ~> (p \notin alive \/ at[p] \in {"idle", "work"})

\* How many file system calls are left to p at most: of an rm under way, of an
\* attempt at the gate, of its work on the lock and the removal of its gate, and
\* of the attempts at the lock that follow.
RmCalls == 2 * (RmRetries + 1)
RmLeft(p) == 2 * (RmRetries - rmTry[p]) + (IF at[p] = "unlink" THEN 2 ELSE 1)
GateCalls == 4 + RmCalls
LeaveCalls == 1 + RmCalls
LockCalls == 4 + RmCalls + LeaveCalls
AttemptCalls == GateAttempts * GateCalls + LockCalls

LaterTries(p) == (GateAttempts - gateTry[p] - 1) * GateCalls
LaterAttempts(p) == (LockAttempts - lockTry[p] - 1) * AttemptCalls

LeftAtGate(p) ==
  LaterTries(p) + LockCalls
    + CASE at[p] = "createGate" -> GateCalls
        [] at[p] = "statGate" -> RmCalls + 3
        [] at[p] = "readGate" -> RmCalls + 2
        [] at[p] = "checkGate" -> RmCalls + 1
        [] OTHER -> RmLeft(p)

LeftAtLock(p) ==
  CASE at[p] = "createLock" -> LockCalls
    [] at[p] = "statLock" -> LeaveCalls + RmCalls + 3
    [] at[p] \in {"readLock", "checkLock"} -> LeaveCalls + RmCalls + 2
    [] at[p] = "recreateLock" -> LeaveCalls + 1
    [] at[p] = "checkOwnGate" -> LeaveCalls
    [] at[p] \in {"unlink", "rmdir"} /\ removing[p] = "ownGate" -> RmLeft(p)
    [] OTHER -> LeaveCalls + 1 + RmLeft(p)

Remaining(p) ==
  IF at[p] \in {"idle", "work"} THEN 0
  ELSE LaterAttempts(p) + (IF InGate(p) THEN LeftAtLock(p) ELSE LeftAtGate(p))

\* Every file system call of acquire or release brings its caller nearer to the
\* end, whatever the others do in the meantime, platforms and deaths included: no
\* attempt, retry or removal starts over.
CallAdvances ==
  [][\A p \in Procs : Step(p) => Remaining(p)' < Remaining(p)]_vars

\* Nobody is ever stuck in acquire or release: each outcome of each file system
\* call leads on.
NeverStuck == \A p \in alive : at[p] \in {"idle", "work"} \/ ENABLED Step(p)

AbstractLock ==
  INSTANCE Mutex WITH owner <- meta["lock"], working <- Working

\* The directories implement the abstract lock, whose owner is the process that
\* owner.json names: every step is a step of Mutex or leaves it alone, as long as
\* nobody has emptied the gate of a living process.
ImplementsMutex ==
  AbstractLock!Init /\ [][~robbed' => AbstractLock!Next]_(AbstractLock!vars)

-----------------------------------------------------------------------------
(* Why the lock is exclusive: the inductive invariants.                    *)

\* p works on the lock, between the creation and the removal of its gate.
AtLock(p) ==
  \/ at[p] \in {"createLock", "statLock", "readLock", "recreateLock", "checkLock"}
  \/ at[p] \in {"unlink", "rmdir"} /\ removing[p] \in {"staleLock", "ownLock"}

\* p has yet to begin the removal of its gate.
HoldsGate(p) == AtLock(p) \/ at[p] = "checkOwnGate"

\* The lock is p's: its function runs, or is about to.
Owns(p) == at[p] = "work" \/ goal[p] = "enter"

\* What a removal of the lock under way found: the lock of a dead process, or p's
\* own after its function ended.
RmJustified(p) ==
  /\ at[p] = "unlink" /\ removing[p] = "staleLock" => Stale(meta["lock"])
  /\ at[p] = "unlink" /\ removing[p] = "ownLock" => meta["lock"] = p
  /\ at[p] = "rmdir" /\ AtLock(p) => meta["lock"] = NoOwner

\* A caller that has got the lock has but to remove its gate.
Leaving(p) ==
  \/ at[p] = "checkOwnGate"
  \/ at[p] \in {"unlink", "rmdir"} /\ removing[p] = "ownGate"

\* The lock protocol's inductive invariant.
LockInv ==
  /\ TypeOK
  /\ \A d \in Dirs : d \notin exists => meta[d] = NoOwner
  /\ ~robbed => \A p \in alive :
       /\ HoldsGate(p) => meta["gate"] = p
       /\ Owns(p) => meta["lock"] = p
       /\ goal[p] = "enter" => Leaving(p)
       /\ RmJustified(p)

\* No two living processes work on the lock at once, as long as nobody has emptied
\* the gate of a living process.
AtLockSerializes ==
  ~robbed => \A p, q \in alive : AtLock(p) /\ AtLock(q) => p = q

\* Where the gate is respected: no process dies under it, and rename refuses an
\* emptied directory, or else rm does not come back to a directory it has emptied.
GateSafe == ~CrashInGate /\ (RenameOverEmpty => RmRetries = 0)

\* The gate names a living process that has not emptied it.
GateOwner == meta["gate"] # NoOwner =>
  LET p == meta["gate"] IN
  p \in alive /\ (HoldsGate(p) \/ (at[p] = "unlink" /\ removing[p] = "ownGate"))

\* A process under the gate owns the gate directory until its own rm has emptied
\* it, and nobody else does.
GateHeld(p) ==
  /\ "gate" \in exists
  /\ \/ meta["gate"] = p
     \/ at[p] = "rmdir" /\ removing[p] = "ownGate" /\ meta["gate"] = NoOwner

\* What is invariant besides where the gate is respected.
GateInv ==
  /\ ~robbed
  /\ GateOwner
  /\ \A p \in alive :
       /\ at[p] # "checkGate"
       /\ at[p] \in {"unlink", "rmdir"} => removing[p] # "staleGate"
       /\ at[p] = "unlink" /\ removing[p] = "ownGate" => meta["gate"] = p
  /\ ~RenameOverEmpty =>
       GateSerializes /\ \A p \in alive : InGate(p) => GateHeld(p)

=============================================================================
